---- MODULE Spec2Model ----
(***************************************************************************)
(* Model of the incident-response coordination layer of the ransomware     *)
(* response system: strategy selection and the Celery response chain       *)
(* (response_service/tasks.py), the triage.completed consumer              *)
(* (response_service/consumer.py), the respond endpoint                    *)
(* (response_service/routes.py) and the audit ledger                       *)
(* (audit_service/models.py).                                              *)
(*                                                                         *)
(* The specifications share the variables:                                 *)
(*   SpecStrategy  the pure strategy functions over bounded triage inputs  *)
(*   SpecChain     the dispatcher task and the chain it sends              *)
(*   SpecConsumer  the triage.completed consumer and what it dispatches    *)
(*   SpecRespond   the respond endpoint and what it dispatches             *)
(*   SpecAudit     the audit ledger and the operations that touch it       *)
(***************************************************************************)
EXTENDS Integers, Sequences, FiniteSets, TLC

VARIABLES
    sel,          \* strategy functions: input triage, pc and outputs
    get_db,       \* what response_service.tasks.get_db yields in this build
    db_dialect,   \* the engine behind the tasks' session
    row,          \* the response_incidents row of the incident
    consumer,     \* per triage.completed delivery: the _process coroutine
    http,         \* per POST /incidents/{id}/respond: the request coroutine
    era,          \* per trigger: the execute_response_actions task
    run,          \* per trigger: the chain started by that task
    published,    \* routing keys published outside a chain (set)
    audit_logs,   \* the audit_logs table: sequence of persisted entries
    audit_clock,  \* server clock used for created_at (func.now())
    audit_op,     \* outcome of the last ledger operation
    tri,          \* the triage agent's analysis of one incident
    gw,           \* the gateway's quarantine store and what it processed last
    bus,          \* a bus queue, its consumer's deliveries and the processing
    bridge,       \* the gateway's event bridge between thread and ASGI loop
    tl            \* the timeline endpoint's answer and the events routed

vars == << sel, get_db, db_dialect, row, consumer, http, era, run, published,
           audit_logs, audit_clock, audit_op, tri, gw, bus,
           bridge, tl >>

strategyVars == << sel >>
respVars == << get_db, db_dialect, row, consumer, http, era, run, published >>
auditVars == << audit_logs, audit_clock, audit_op >>
triageVars == << tri >>
gatewayVars == << gw >>
busVars == << bus >>
bridgeVars == << bridge >>
timelineVars == << tl >>
\* the services around the response and audit services
peerVars == << triageVars, gatewayVars, busVars, bridgeVars, timelineVars >>
coreVars == << strategyVars, respVars, auditVars >>
triageFrame ==
    << coreVars, gatewayVars, busVars, bridgeVars, timelineVars >>
gatewayFrame ==
    << coreVars, triageVars, busVars, bridgeVars, timelineVars >>
busFrame ==
    << coreVars, triageVars, gatewayVars, bridgeVars, timelineVars >>
bridgeFrame ==
    << coreVars, triageVars, gatewayVars, busVars, timelineVars >>
timelineFrame ==
    << coreVars, triageVars, gatewayVars, busVars, bridgeVars >>

----------------------------------------------------------------------------
(* Triage results as stored in response_incidents.triage_result (JSON).    *)
(* A dict key is a record field [kind, val]: kind "absent" = key missing,  *)
(* "none" = key present with null (TriageResultModel.dict() writes every   *)
(* declared field, unset ones as null), "int" = an integer.  confidence is *)
(* kept in percent (the dict holds 0.0-1.0, the code multiplies by 100).   *)

MaxScore == 100

AbsentKey == "<absent>"
Absent == [kind |-> "absent", val |-> 0]
Null == [kind |-> "none", val |-> 0]
IntVal(n) == [kind |-> "int", val |-> n]

Decisions == {"confirmed_ransomware", "suspicious", "escalate_human",
              "false_positive", AbsentKey}

EmptyTriage == [decision |-> AbsentKey, threat_score |-> Absent, score |-> Absent,
                confidence |-> Absent]

\* int(score) under try/except: a non-integer (null) gives 0
PyInt(f) == IF f.kind = "int" THEN f.val ELSE 0

\* triage.get("threat_score", triage.get("score", 0))
GetScore(t) ==
    IF t.threat_score.kind # "absent" THEN t.threat_score
    ELSE IF t.score.kind # "absent" THEN t.score
    ELSE IntVal(0)

\* triage.get("decision", "unknown")
GetDecision(t) == IF t.decision = AbsentKey THEN "unknown" ELSE t.decision

FullAutoThreshold == 80
SemiAutoThreshold == 40

select_response_strategy_logic(triage) ==
    LET decision == GetDecision(triage)
        score == PyInt(GetScore(triage))
    IN  IF decision = "confirmed_ransomware" \/ score >= FullAutoThreshold
        THEN [strategy |-> "full_auto",
              actions |-> <<"quarantine_host", "block_ip", "escalate", "collect_forensics">>]
        ELSE IF decision = "escalate_human"
                \/ (SemiAutoThreshold <= score /\ score < FullAutoThreshold)
        THEN [strategy |-> "semi_auto", actions |-> <<"block_ip", "escalate">>]
        ELSE [strategy |-> "analyst_only", actions |-> <<"escalate">>]

(* A chain is the sequence of its signatures.  A signature carries the     *)
(* arguments bound with .s(...): "id" when the incident id is bound,       *)
(* "none" when .s() binds nothing.                                         *)
Sig(task, bound) == [task |-> task, bound |-> bound]

build_workflow(strategy) ==
    CASE strategy = "full_auto" ->
           << Sig("quarantine_host", "id"), Sig("block_ip", "none"),
              Sig("escalate", "none"), Sig("collect_forensics", "none"),
              Sig("finalize_response", "none") >>
      [] strategy = "semi_auto" ->
           << Sig("block_ip", "none"), Sig("escalate", "none"),
              Sig("finalize_response", "none") >>
      [] strategy = "analyst_only" ->
           << Sig("escalate", "none"), Sig("finalize_response", "none") >>
      [] OTHER -> << >>

ChainTasks(chain) == [i \in 1..Len(chain) |-> chain[i].task]

----------------------------------------------------------------------------
(* SpecStrategy: the strategy functions applied to every bounded input.    *)

ScoreFields == {Absent, Null} \cup {IntVal(n) : n \in 0..MaxScore}
OtherScoreFields == {Absent, Null, IntVal(0), IntVal(39), IntVal(40),
                     IntVal(79), IntVal(80), IntVal(90), IntVal(MaxScore)}

TriageInputs ==
    [decision : Decisions, threat_score : ScoreFields, score : OtherScoreFields,
     confidence : {Absent}]

NoSel == [pc |-> "off", triage |-> EmptyTriage, strategy |-> "", actions |-> << >>,
          chain |-> << >>]

InitStrategy ==
    /\ \E t \in TriageInputs :
         sel = [pc |-> "input", triage |-> t, strategy |-> "", actions |-> << >>,
                chain |-> << >>]

SelectStrategy ==
    /\ sel.pc = "input"
    /\ LET r == select_response_strategy_logic(sel.triage)
       IN  sel' = [sel EXCEPT !.pc = "selected", !.strategy = r.strategy,
                              !.actions = r.actions]
    /\ UNCHANGED << respVars, auditVars, peerVars >>

BuildWorkflow ==
    /\ sel.pc = "selected"
    /\ sel' = [sel EXCEPT !.pc = "built",
                          !.chain = ChainTasks(build_workflow(sel.strategy))]
    /\ UNCHANGED << respVars, auditVars, peerVars >>

----------------------------------------------------------------------------
(* The audit ledger (audit_service/models.py).                             *)
(*                                                                         *)
(* An entry is the row of audit_logs.  log_id and created_at are filled by *)
(* the INSERT (a Python column default and server_default=func.now()), so  *)
(* on the object handed to the before_insert listener they are still None: *)
(* None is 0 here, a generated log_id is its positive row number and a     *)
(* timestamp is a positive clock value.                                    *)

MaxAuditInserts == 3

NoneVal == 0

Actors == {"system", "response_service"}
AuditActions == {"response_triggered", "auto_response_triggered"}
AuditTargets == {"inc1"}
AuditStatuses == {"initiated", "error"}
AuditDetails == {"{}"}
AuditFieldNames == {"actor", "action", "target", "status", "details"}

AuditInputs ==
    [actor : Actors, action : AuditActions, target : AuditTargets,
     resource_type : {"incident"}, status : AuditStatuses, details : AuditDetails]

\* AuditLog(actor=..., action=..., ...) as every write path constructs it
NewAuditLog(in) ==
    [log_id |-> NoneVal, actor |-> in.actor, action |-> in.action,
     target |-> in.target, resource_type |-> in.resource_type,
     status |-> in.status, details |-> in.details, created_at |-> NoneVal,
     integrity_hash |-> [sha256 |-> << >>]]

\* json.dumps(payload, sort_keys=True, default=str): the values in key order
\* action, actor, created_at, details, log_id, resource_type, status, target;
\* created_at is "" (0 here) when the attribute is None
_payload_for_hash(e) ==
    << e.action, e.actor, e.created_at, e.details, e.log_id,
       e.resource_type, e.status, e.target >>

\* hashlib.sha256(...).hexdigest(), idealised as collision free
Sha256(payload) == [sha256 |-> payload]

\* before_insert listener
_set_integrity_hash(target) ==
    [target EXCEPT !.integrity_hash = Sha256(_payload_for_hash(target))]

\* session.add(entry); commit(): the listener runs on the pending object, then
\* the INSERT assigns log_id and created_at
OrmInsert(logs, clock, in) ==
    LET hashed == _set_integrity_hash(NewAuditLog(in))
    IN  Append(logs, [hashed EXCEPT !.log_id = Len(logs) + 1,
                                    !.created_at = clock])

\* integrity_hash = Column(String(128), nullable=False), no default: a row
\* whose hash was never set is refused by the table (IntegrityError)
NotNullViolation(e) == e.integrity_hash = [sha256 |-> << >>]

\* _log_action_async: a Core insert(AuditLog).values(...) fires no mapper
\* event, so before_insert never runs and the row is sent without a hash;
\* the table refuses it and the ledger is left as it was
CoreInsert(logs, clock, in) ==
    LET e == NewAuditLog(in)
    IN  IF NotNullViolation(e) THEN logs
        ELSE Append(logs, [e EXCEPT !.log_id = Len(logs) + 1,
                                    !.created_at = clock])

_prevent_mutation_Silent(target) == FALSE

\* before_update listener: TRUE when it raises ValueError
_prevent_mutation(target) == TRUE

SetField(e, f, v) ==
    CASE f = "actor" -> [e EXCEPT !.actor = v]
      [] f = "action" -> [e EXCEPT !.action = v]
      [] f = "target" -> [e EXCEPT !.target = v]
      [] f = "status" -> [e EXCEPT !.status = v]
      [] f = "details" -> [e EXCEPT !.details = v]

\* values a caller may assign: the stored ones and one foreign value
FieldValues(f) ==
    CASE f = "actor" -> Actors
      [] f = "action" -> AuditActions \cup {"tampered"}
      [] f = "target" -> AuditTargets \cup {"10.0.0.1"}
      [] f = "status" -> AuditStatuses
      [] f = "details" -> AuditDetails \cup {"{k:v}"}

NoAuditOp == [kind |-> "none", raised |-> FALSE, before |-> << >>]

InitAudit ==
    /\ audit_logs = << >>
    /\ audit_clock = 1
    /\ audit_op = NoAuditOp

\* POST /api/v1/log
create_audit_log ==
    /\ audit_clock <= MaxAuditInserts
    /\ \E in \in AuditInputs :
         audit_logs' = OrmInsert(audit_logs, audit_clock, in)
    /\ audit_clock' = audit_clock + 1
    /\ audit_op' = [kind |-> "insert", raised |-> FALSE,
                    before |-> audit_logs]
    /\ UNCHANGED << respVars, strategyVars, peerVars >>

\* Assigning an attribute of a loaded entry and committing: the flush fires
\* before_update for the dirty object; when it raises, the UPDATE is not
\* issued and the exception reaches the caller of commit().
OrmUpdate ==
    /\ \E i \in 1..Len(audit_logs) :
       \E f \in AuditFieldNames :
       \E v \in FieldValues(f) :
         LET changed == SetField(audit_logs[i], f, v)
             raised == _prevent_mutation(changed)
         IN  /\ audit_logs' = IF raised THEN audit_logs
                              ELSE [audit_logs EXCEPT ![i] = changed]
             /\ audit_op' = [kind |-> "orm_update", raised |-> raised,
                             before |-> audit_logs]
    /\ UNCHANGED audit_clock
    /\ UNCHANGED << respVars, strategyVars, peerVars >>

\* init_db.py: DROP TABLE IF EXISTS audit_logs CASCADE, then CREATE TABLE
fix_database_schema ==
    /\ audit_logs' = << >>
    /\ audit_op' = [kind |-> "drop_table", raised |-> FALSE,
                    before |-> audit_logs]
    /\ UNCHANGED audit_clock
    /\ UNCHANGED << respVars, strategyVars, peerVars >>

\* Events the audit consumer receives: a key of the payload that is missing
\* or empty is written "" here
AuditEvents ==
    [routing_key : {"incident.received"},
     action : {"", "response_triggered"},
     actor : {""},
     status : {"", "error"}]

Or(a, b) == IF a = "" THEN b ELSE a

\* audit_service.consumer._persist_event_to_db
_persist_event_to_db ==
    /\ audit_clock <= MaxAuditInserts
    /\ \E ev \in AuditEvents :
         audit_logs' = OrmInsert(audit_logs, audit_clock,
                         [actor |-> Or(ev.actor, "system"),
                          action |-> Or(Or(ev.action, ev.routing_key), "event"),
                          target |-> "inc1", resource_type |-> "system",
                          status |-> Or(ev.status, "info"),
                          details |-> "{}"])
    /\ audit_clock' = audit_clock + 1
    /\ audit_op' = [kind |-> "insert", raised |-> FALSE,
                    before |-> audit_logs]
    /\ UNCHANGED << respVars, strategyVars, peerVars >>

\* audit_service.logger.DatabaseHandler._write_async
_write_async ==
    /\ audit_clock <= MaxAuditInserts
    /\ \E levelname \in {"info", "error"} :
         audit_logs' = OrmInsert(audit_logs, audit_clock,
                         [actor |-> "system", action |-> "system_log",
                          target |-> "audit_service", resource_type |-> "log",
                          status |-> levelname, details |-> "{}"])
    /\ audit_clock' = audit_clock + 1
    /\ audit_op' = [kind |-> "insert", raised |-> FALSE,
                    before |-> audit_logs]
    /\ UNCHANGED << respVars, strategyVars, peerVars >>

\* audit_service.tasks.log_action: the exception of the insert is caught and
\* the task returns {"status": "error"}
log_action ==
    /\ audit_clock <= MaxAuditInserts
    /\ \E in \in AuditInputs :
         LET after == CoreInsert(audit_logs, audit_clock, in)
         IN  /\ audit_logs' = after
             /\ audit_op' = [kind |-> "core_insert",
                             raised |-> (after = audit_logs),
                             before |-> audit_logs]
    /\ audit_clock' = audit_clock + 1
    /\ UNCHANGED << respVars, strategyVars, peerVars >>

NextAudit ==
    \/ create_audit_log
    \/ _persist_event_to_db
    \/ _write_async
    \/ log_action
    \/ OrmUpdate
    \/ fix_database_schema

----------------------------------------------------------------------------
(* The response service: one incident, its response_incidents row, the     *)
(* triage.completed consumer and the respond endpoint.                     *)

MaxEvents == 2
MaxRequests == 2
MaxDispatch == 2
MaxRuns == 1

Events == 1..MaxEvents
Requests == 1..MaxRequests
Tids == 1..MaxDispatch
NoTask == 0

auto_response_enabled == TRUE
AUTO_QUARANTINE_THRESHOLD == 80
ANALYST_REVIEW_THRESHOLD == 60

\* a JSON list column: NULL or a list
NullList == [isnull |-> TRUE, items |-> << >>]
List(items) == [isnull |-> FALSE, items |-> items]

NoRow == [exists |-> FALSE, response_status |-> "", current_task_id |-> NoTask,
          triage_result |-> EmptyTriage, has_ip |-> FALSE,
          actions_taken |-> NullList, actions_planned |-> NullList,
          response_strategy |-> ""]

\* POST /webhook/siem: core.models.ResponseIncident, whose JSONB columns have
\* no default
WebhookRow(ip) == [NoRow EXCEPT !.exists = TRUE, !.response_status = "pending",
                                !.has_ip = ip]

Triage(decision, threat_score, confidence) ==
    [decision |-> decision, threat_score |-> IntVal(threat_score),
     score |-> Absent, confidence |-> IntVal(confidence)]

EventPayloads ==
    { [triage |-> Triage("confirmed_ransomware", 95, 85), has_ip |-> TRUE],
      [triage |-> Triage("suspicious", 50, 70), has_ip |-> TRUE],
      [triage |-> Triage("false_positive", 10, 20), has_ip |-> FALSE] }

Max2(a, b) == IF a >= b THEN a ELSE b
MinOf(S) == CHOOSE x \in S : \A y \in S : x <= y

FreeTids == {t \in Tids : era[t].pc = "none"}

\* the ledger entry audit_agent.record_action posts to the audit service
AuditRecord(action, target, status, resource_type) ==
    [actor |-> "response_service", action |-> action, target |-> target,
     resource_type |-> resource_type, status |-> status, details |-> "{}"]

AppendAll(logs, clock, ins) ==
    IF Len(ins) = 0 THEN logs
    ELSE IF Len(ins) = 1 THEN OrmInsert(logs, clock, ins[1])
    ELSE OrmInsert(OrmInsert(logs, clock, ins[1]), clock + 1, ins[2])

\* _auto_quarantine_if_needed: the response_status it leaves on the in-memory
\* incident, the keys it publishes and the ledger entries it posts.
\* gw_ok: the gateway answered the quarantine call with 200/201.
_auto_quarantine_if_needed(status, payload, gw_ok) ==
    LET t == payload.triage
        confidence == PyInt(t.confidence)
        threat_score == PyInt(t.threat_score)
        effective_score == Max2(confidence, threat_score)
        none == [status |-> status, keys |-> {}, audit |-> << >>, quarantined |-> FALSE]
    IN  IF ~auto_response_enabled \/ ~payload.has_ip THEN none
        ELSE IF effective_score > AUTO_QUARANTINE_THRESHOLD
        THEN IF gw_ok
             THEN [status |-> "auto_quarantined",
                   keys |-> {"security.auto_quarantine"},
                   audit |-> << AuditRecord("auto_quarantine_triggered", "10.0.0.1",
                                            "success", "ip_address") >>,
                   quarantined |-> TRUE]
             ELSE none
        ELSE IF effective_score >= ANALYST_REVIEW_THRESHOLD
        THEN [none EXCEPT !.status = "pending_analyst_review",
                          !.keys = {"security.quarantine_recommended"}]
        ELSE [none EXCEPT !.status = "pending_analyst_decision",
                          !.keys = {"security.analyst_decision_required"}]

\* triage.get("threat_score") or triage.get("score"), then int(...) or 0
TriggerScore(t) ==
    IF t.threat_score.kind = "int" /\ t.threat_score.val # 0 THEN t.threat_score.val
    ELSE PyInt(t.score)

\* _auto_trigger_if_needed up to its decision: TRUE when it calls
\* execute_response_actions.delay
_auto_trigger_if_needed(current_task_id, triage) ==
    /\ auto_response_enabled
    /\ current_task_id = NoTask
    /\ triage.decision = "confirmed_ransomware" \/ TriggerScore(triage) >= 80

IdleHandler == [pc |-> "idle", payload |-> CHOOSE p \in EventPayloads : TRUE,
                found |-> FALSE, l_status |-> "", l_task |-> NoTask,
                l_triage |-> EmptyTriage, m_status |-> "", m_task |-> NoTask]

\* an execute_response_actions message: who called .delay, and where the task is
QueuedTask(by) == [pc |-> "queued", by |-> by, strategy |-> "", actions |-> << >>]
NoEra == [pc |-> "none", by |-> "", strategy |-> "", actions |-> << >>]

\* _on_message -> _handle_event schedules the coroutine _process(payload) on
\* MAIN_LOOP and the message is acknowledged; _process runs up to its SELECT:
\* the incident as this session sees it
ConsumerLoad(i) ==
    /\ consumer[i].pc = "idle"
    /\ IF i = 1 THEN TRUE ELSE consumer[i - 1].pc # "idle"
    /\ \E p \in EventPayloads :
         consumer' = [consumer EXCEPT ![i] =
                        [@ EXCEPT !.pc = "loaded", !.payload = p,
                                  !.found = row.exists,
                                  !.l_status = row.response_status,
                                  !.l_task = row.current_task_id,
                                  !.l_triage = row.triage_result]]
    /\ UNCHANGED << get_db, db_dialect, row, http, era, run, published >>
    /\ UNCHANGED << auditVars, strategyVars, peerVars >>

\* _process from the SELECT's result to the await of db.commit(): the new or
\* updated in-memory incident, _auto_quarantine_if_needed and
\* _auto_trigger_if_needed
ConsumerTrigger(i) ==
    /\ consumer[i].pc = "loaded"
    /\ \E gw_ok \in BOOLEAN :
         LET h == consumer[i]
             s0 == IF h.found /\ h.l_task # NoTask THEN h.l_status ELSE "pending"
             q == _auto_quarantine_if_needed(s0, h.payload, gw_ok)
             fire == _auto_trigger_if_needed(h.l_task, h.payload.triage)
             tid == IF fire THEN MinOf(FreeTids) ELSE NoTask
             ins == q.audit \o
                    (IF fire THEN << AuditRecord("auto_response_triggered", "inc1",
                                                 "initiated", "incident") >>
                     ELSE << >>)
         IN  /\ fire => FreeTids # {}
             /\ consumer' = [consumer EXCEPT ![i] =
                   [@ EXCEPT !.pc = "triggered",
                             !.m_status = IF fire THEN "workflow_started" ELSE q.status,
                             !.m_task = IF fire THEN tid ELSE h.l_task]]
             /\ era' = IF fire THEN [era EXCEPT ![tid] = QueuedTask("consumer")] ELSE era
             /\ published' = published \cup q.keys
                    \cup (IF fire THEN {"response.workflow.auto_started"} ELSE {})
             /\ audit_logs' = AppendAll(audit_logs, audit_clock, ins)
             /\ audit_clock' = audit_clock + Len(ins)
             /\ audit_op' = IF Len(ins) = 0 THEN audit_op
                            ELSE [kind |-> "insert", raised |-> FALSE,
                                  before |-> audit_logs]
    /\ UNCHANGED << get_db, db_dialect, row, http, run >>
    /\ UNCHANGED << strategyVars, peerVars >>

\* await db.commit(): INSERT of a new incident (response_service.models
\* defaults: actions_taken = [], actions_planned = []) or UPDATE of the
\* attributes this session changed; then response.selected, or
\* response.failed when the commit raised
ConsumerCommit(i) ==
    /\ consumer[i].pc = "triggered"
    /\ LET h == consumer[i]
           duplicate == ~h.found /\ row.exists
       IN  /\ row' = IF duplicate THEN row
                     ELSE IF ~h.found
                     THEN [exists |-> TRUE, response_status |-> h.m_status,
                           current_task_id |-> h.m_task,
                           triage_result |-> h.payload.triage,
                           has_ip |-> h.payload.has_ip,
                           actions_taken |-> List(<< >>),
                           actions_planned |-> List(<< >>),
                           response_strategy |-> ""]
                     ELSE [row EXCEPT
                             !.triage_result = IF h.payload.triage # h.l_triage
                                               THEN h.payload.triage ELSE @,
                             !.response_status = IF h.m_status # h.l_status
                                                 THEN h.m_status ELSE @,
                             !.current_task_id = IF h.m_task # h.l_task
                                                 THEN h.m_task ELSE @]
           /\ consumer' = [consumer EXCEPT ![i] =
                 [@ EXCEPT !.pc = IF duplicate THEN "failed" ELSE "done"]]
           /\ published' = published \cup
                 {IF duplicate THEN "response.failed" ELSE "response.selected"}
    /\ UNCHANGED << get_db, db_dialect, http, era, run >>
    /\ UNCHANGED << auditVars, strategyVars, peerVars >>

----------------------------------------------------------------------------
(* POST /incidents/{incident_id}/respond (response_service/routes.py).     *)

\* TriageResultModel(**raw).dict(): every declared field is written, an
\* unset Optional as null
TriageResultModel_dict(raw) ==
    [raw EXCEPT !.threat_score = IF @.kind = "absent" THEN Null ELSE @,
                !.score = IF @.kind = "absent" THEN Null ELSE @]

\* triage_result bodies a client posts: the score under "threat_score", or
\* under "score"
RequestTriages ==
    { [decision |-> "confirmed_ransomware", threat_score |-> IntVal(95),
       score |-> Absent, confidence |-> Absent],
      [decision |-> "suspicious", threat_score |-> Absent,
       score |-> IntVal(90), confidence |-> Absent] }

RequestBodies ==
    {[given |-> FALSE, triage |-> EmptyTriage]}
    \cup {[given |-> TRUE, triage |-> t] : t \in RequestTriages}

IdleRequest == [pc |-> "idle", body |-> [given |-> FALSE, triage |-> EmptyTriage],
                l_status |-> "", l_task |-> NoTask, l_triage |-> EmptyTriage,
                tid |-> NoTask]

\* the request up to the SELECT: 404 when the incident is not found
RespondFetch(j) ==
    /\ http[j].pc = "idle"
    /\ IF j = 1 THEN TRUE ELSE http[j - 1].pc # "idle"
    /\ \E b \in RequestBodies :
         http' = [http EXCEPT ![j] =
                    [@ EXCEPT !.pc = IF row.exists THEN "fetched" ELSE "404",
                              !.body = b,
                              !.l_status = row.response_status,
                              !.l_task = row.current_task_id,
                              !.l_triage = row.triage_result]]
    /\ UNCHANGED << get_db, db_dialect, row, consumer, era, run, published >>
    /\ UNCHANGED << auditVars, strategyVars, peerVars >>

\* the first commit: triage_result when one was posted, response_status =
\* "pending"
RespondPersist(j) ==
    /\ http[j].pc = "fetched"
    /\ LET q == http[j]
           triage == TriageResultModel_dict(q.body.triage)
       IN  row' = [row EXCEPT
                     !.triage_result = IF q.body.given /\ triage # q.l_triage
                                       THEN triage ELSE @,
                     !.response_status = IF q.l_status # "pending"
                                         THEN "pending" ELSE @]
    /\ http' = [http EXCEPT ![j] = [@ EXCEPT !.pc = "persisted"]]
    /\ UNCHANGED << get_db, db_dialect, consumer, era, run, published >>
    /\ UNCHANGED << auditVars, strategyVars, peerVars >>

\* audit_agent.record_action("response_triggered") and
\* execute_response_actions.delay(incident_id, agent_id)
RespondDispatch(j) ==
    /\ http[j].pc = "persisted"
    /\ FreeTids # {}
    /\ LET tid == MinOf(FreeTids)
       IN  /\ http' = [http EXCEPT ![j] = [@ EXCEPT !.pc = "dispatched",
                                                    !.tid = tid]]
           /\ era' = [era EXCEPT ![tid] = QueuedTask("respond")]
    /\ audit_logs' = OrmInsert(audit_logs, audit_clock,
                               AuditRecord("response_triggered", "inc1",
                                           "initiated", "incident"))
    /\ audit_clock' = audit_clock + 1
    /\ audit_op' = [kind |-> "insert", raised |-> FALSE, before |-> audit_logs]
    /\ UNCHANGED << get_db, db_dialect, row, consumer, run, published >>
    /\ UNCHANGED << strategyVars, peerVars >>

\* the second commit: incident.current_task_id = async_result.id
RespondCommit(j) ==
    /\ http[j].pc = "dispatched"
    /\ row' = [row EXCEPT !.current_task_id = http[j].tid]
    /\ http' = [http EXCEPT ![j] = [@ EXCEPT !.pc = "done"]]
    /\ UNCHANGED << get_db, db_dialect, consumer, era, run, published >>
    /\ UNCHANGED << auditVars, strategyVars, peerVars >>

----------------------------------------------------------------------------
(* execute_response_actions and the chain it starts                        *)
(* (response_service/tasks.py).                                            *)
(*                                                                         *)
(* get_db: tasks call next(get_db()).  core.database.get_db is an async    *)
(* generator function, on which next() raises TypeError                    *)
(* ("async_generator"); tests/test_tasks.py installs an iterator over a    *)
(* synchronous session ("session_iter").                                   *)
(* db_dialect: the chain hands each task the previous task's return value  *)
(* as its first argument.  Looking an incident up by such a value finds no *)
(* row on sqlite (the tests' engine) and is rejected by the UUID column on *)
(* postgresql (core/database.py).                                          *)

max_retries == 3

\* response_agent.analyze_incident: decision from the intel score
ResponseAgentTriage(score) ==
    [decision |-> IF score >= 70 THEN "quarantine+block"
                  ELSE IF score >= 60 THEN "block_ip"
                  ELSE IF score >= 50 THEN "escalate_human"
                  ELSE "monitor",
     threat_score |-> Absent, score |-> IntVal(score),
     confidence |-> IntVal(score)]

FallbackScores == {20, 60, 90}

\* what isolate_endpoint returns to quarantine_host: the provider's answer
\* ("done"), {"status": "skipped"} when Wazuh is not configured, or
\* {"status": "error"} when the provider's call raised or timed out
ProviderAnswers == {"done", "skipped", "error"}

\* one chain: its tasks, the position and first argument of the task message
\* now in the queue, self.request.retries of that message, whether a task body
\* has raised (faulted) and whether a task has raised with no retry left
\* (exhausted), the tasks that returned, and the routing keys published for
\* this run in publication order; the positions of the task messages that
\* are out (inflight) and of those a worker is running (busy); what
\* isolate_endpoint returns in this deployment; and whether the RabbitMQ
\* broker accepts publish_event's connection
NoRun == [state |-> "none", chain |-> << >>, idx |-> 0, arg |-> "none",
          retries |-> 0, faulted |-> FALSE, exhausted |-> FALSE,
          returned |-> << >>, events |-> << >>,
          inflight |-> {}, busy |-> {}, isolate_endpoint |-> "done",
          rabbitmq |-> "up"]

apply_async_Group(chain) == 1..Len(chain)

\* workflow.apply_async() on chain(...): only the first task is sent; each
\* later one is sent when the task before it returns
apply_async(chain) == {1}

\* apply_async() sends the first task with the arguments its signature binds;
\* r is the run before it is sent
StartRun(chain, r) ==
    [r EXCEPT !.state = "active", !.chain = ChainTasks(chain), !.idx = 1,
              !.arg = chain[1].bound, !.inflight = apply_async(chain)]

\* core.rabbitmq_utils.publish_event: connect, declare, basic_publish, all
\* inside try/except Exception that only logs: with the broker unreachable
\* nothing is published and the caller goes on
publish_event(r, key) ==
    IF r.rabbitmq = "up" THEN [r EXCEPT !.events = Append(@, key)] ELSE r

Emit(r, key) == publish_event(r, key)

\* an exception leaves the task: state FAILURE, the rest of the chain is not sent
Fail(r) == [r EXCEPT !.state = "failed"]

\* the task returned: Celery applies the next signature to its return value,
\* which becomes that task's first positional argument
Advance(r) ==
    [r EXCEPT !.idx = @ + 1, !.arg = "result", !.retries = 0,
              !.returned = Append(@, r.chain[r.idx]),
              !.state = IF r.idx + 1 > Len(r.chain) THEN "success" ELSE "active"]

on_step_exception_Continue(r) ==
    IF r.retries < max_retries
    THEN [r EXCEPT !.retries = @ + 1, !.faulted = TRUE]
    ELSE Advance([r EXCEPT !.faulted = TRUE, !.exhausted = TRUE])

\* except Exception as exc: raise self.retry(exc=exc).  Below max_retries the
\* message is sent again with retries + 1; at max_retries retry() raises exc
\* itself, which is not MaxRetriesExceededError, and the task fails
on_step_exception(r) ==
    IF r.retries < max_retries
    THEN [r EXCEPT !.retries = @ + 1, !.faulted = TRUE]
    ELSE Fail([r EXCEPT !.faulted = TRUE, !.exhausted = TRUE])

\* db.query(ResponseIncident).filter(ResponseIncident.id == incident_id).first()
Lookup(arg, rw) ==
    IF arg = "id" THEN (IF rw.exists THEN "row" ELSE "missing")
    ELSE IF db_dialect = "postgresql" THEN "raise" ELSE "missing"

\* _ensure_actions_list; incident.actions_taken.append(name); commit.  On the
\* plain JSON column the list is written only when _ensure_actions_list
\* assigned a new one (the loaded value was NULL): an in-place append to a
\* loaded list does not mark the attribute as changed
AppendTaken(col, names) == IF col.isnull THEN List(names) ELSE col

StepOut(r, rw) == [run |-> r, row |-> rw, log_action |-> FALSE]

\* quarantine_host: result = asyncio.run(isolate_endpoint(agent_id)) is only
\* put into the event and the return value: whatever r.isolate_endpoint is,
\* the step is recorded as taken
quarantine_host(r, rw, commit_ok) ==
    LET found == Lookup(r.arg, rw)
    IN  IF found = "raise" THEN StepOut(Fail(r), rw)
        ELSE IF found = "missing" THEN StepOut(Advance(r), rw)
        ELSE IF commit_ok
        THEN StepOut(Advance(Emit(r, "response.quarantine.completed")),
                     [rw EXCEPT !.actions_taken = AppendTaken(@, << "quarantine_host" >>),
                                !.response_status = "quarantined"])
        ELSE StepOut(on_step_exception(r), rw)

block_ip(r, rw, commit_ok) ==
    LET found == Lookup(r.arg, rw)
    IN  IF found = "raise" THEN StepOut(Fail(r), rw)
        ELSE IF found = "missing" THEN StepOut(Advance(r), rw)
        ELSE IF ~rw.has_ip THEN StepOut(Advance(r), rw)
        ELSE IF commit_ok
        THEN StepOut(Advance(Emit(r, "response.block_ip.completed")),
                     [rw EXCEPT !.actions_taken = AppendTaken(@, << "block_ip" >>),
                                !.response_status = "ip_blocked"])
        ELSE StepOut(on_step_exception(r), rw)

escalate(r, rw, commit_ok) ==
    LET r1 == Emit(r, "soc.alert")
        found == Lookup(r.arg, rw)
    IN  IF found = "raise" THEN StepOut(Fail(r1), rw)
        ELSE IF found = "missing"
        THEN StepOut(Advance(Emit(r1, "response.escalation.triggered")), rw)
        ELSE IF commit_ok
        THEN StepOut(Advance(Emit(r1, "response.escalation.triggered")),
                     [rw EXCEPT !.actions_taken = AppendTaken(@, << "escalate" >>),
                                !.response_status = "escalation_sent"])
        ELSE StepOut(Fail(r1), rw)

collect_forensics(r, rw, commit_ok) ==
    LET found == Lookup(r.arg, rw)
    IN  IF found = "raise" THEN StepOut(Fail(r), rw)
        ELSE IF found = "missing"
        THEN StepOut(Advance(Emit(r, "response.forensics.collected")), rw)
        ELSE IF commit_ok
        THEN StepOut(Advance(Emit(r, "response.forensics.collected")),
                     [rw EXCEPT !.actions_taken = AppendTaken(@, << "collect_forensics" >>)])
        ELSE StepOut(Fail(r), rw)

finalize_response(r, rw, commit_ok) ==
    LET found == Lookup(r.arg, rw)
    IN  IF found = "raise" THEN StepOut(Fail(r), rw)
        ELSE IF found = "missing" THEN StepOut(Advance(r), rw)
        ELSE IF commit_ok
        THEN [run |-> Advance(Emit(r, "response.workflow.completed")),
              row |-> [rw EXCEPT !.actions_taken = AppendTaken(@, << >>),
                                 !.response_status = "completed"],
              log_action |-> TRUE]
        ELSE StepOut(Fail(r), rw)

RunTask(task, r, rw, commit_ok) ==
    CASE task = "quarantine_host" -> quarantine_host(r, rw, commit_ok)
      [] task = "block_ip" -> block_ip(r, rw, commit_ok)
      [] task = "escalate" -> escalate(r, rw, commit_ok)
      [] task = "collect_forensics" -> collect_forensics(r, rw, commit_ok)
      [] task = "finalize_response" -> finalize_response(r, rw, commit_ok)

\* execute_response_actions up to workflow.apply_async(): fallback triage when
\* none is stored (left empty when the agent raises), strategy selection,
\* response_strategy and actions_planned committed, the chain built and sent.
\* Task.apply_async checks the arguments against the task's signature
\* (Task.typing): a first task whose signature binds nothing raises TypeError
\* here, in the dispatcher
EraStart(t) ==
    /\ era[t].pc = "queued"
    /\ IF get_db = "async_generator"
       THEN /\ era' = [era EXCEPT ![t] = [@ EXCEPT !.pc = "failed"]]
            /\ UNCHANGED << row, run >>
       ELSE IF ~row.exists
       THEN /\ era' = [era EXCEPT ![t] = [@ EXCEPT !.pc = "not_found"]]
            /\ UNCHANGED << row, run >>
       ELSE \E fb \in {EmptyTriage} \cup {ResponseAgentTriage(n) : n \in FallbackScores} :
              LET triage == IF row.triage_result = EmptyTriage THEN fb
                            ELSE row.triage_result
                  r == select_response_strategy_logic(triage)
                  workflow == build_workflow(r.strategy)
                  sent == workflow[1].bound # "none"
              IN  /\ row' = [row EXCEPT !.triage_result = triage,
                                        !.response_strategy = r.strategy,
                                        !.actions_planned = List(r.actions)]
                  /\ era' = [era EXCEPT ![t] =
                               [@ EXCEPT !.pc = IF sent THEN "applied" ELSE "failed",
                                         !.strategy = r.strategy,
                                         !.actions = r.actions]]
                  /\ run' = IF sent
                            THEN [run EXCEPT ![t] = StartRun(workflow, run[t])]
                            ELSE run
    /\ UNCHANGED << get_db, db_dialect, consumer, http, published >>
    /\ UNCHANGED << auditVars, strategyVars, peerVars >>

\* publish_event("response.workflow.started", ...) and return
EraPublish(t) ==
    /\ era[t].pc = "applied"
    /\ run' = [run EXCEPT ![t] = Emit(@, "response.workflow.started")]
    /\ era' = [era EXCEPT ![t] = [@ EXCEPT !.pc = "done"]]
    /\ UNCHANGED << get_db, db_dialect, row, consumer, http, published >>
    /\ UNCHANGED << auditVars, strategyVars, peerVars >>

\* a worker takes a task message of the chain that is out: the task body
\* starts
StepTake(t) ==
    /\ run[t].state = "active"
    /\ \E k \in run[t].inflight \ run[t].busy :
         run' = [run EXCEPT ![t] = [@ EXCEPT !.busy = @ \cup {k}]]
    /\ UNCHANGED << get_db, db_dialect, row, consumer, http, era, published >>
    /\ UNCHANGED << auditVars, strategyVars, peerVars >>

\* a running task body ends: it returns (the next task's message is sent),
\* asks for a retry (its message is sent again) or fails
StepRun(t) ==
    /\ run[t].state = "active"
    /\ \E k \in run[t].busy :
       \E commit_ok \in BOOLEAN :
         LET r == [run[t] EXCEPT !.idx = k]
             out == RunTask(r.chain[k], r, row, commit_ok)
             sent == IF out.run.state = "active" THEN {out.run.idx} ELSE {}
         IN  /\ run' = [run EXCEPT ![t] =
                          [out.run EXCEPT !.busy = @ \ {k},
                                          !.inflight = (@ \ {k}) \cup sent]]
             /\ row' = out.row
             /\ audit_logs' =
                  IF out.log_action
                  THEN CoreInsert(audit_logs, audit_clock,
                                  [actor |-> "system",
                                   action |-> "automated_response_completed",
                                   target |-> "inc1", resource_type |-> "system",
                                   status |-> "success", details |-> "{}"])
                  ELSE audit_logs
             /\ audit_clock' = IF out.log_action THEN audit_clock + 1 ELSE audit_clock
             /\ audit_op' = IF out.log_action
                            THEN [kind |-> "core_insert", raised |-> TRUE,
                                  before |-> audit_logs]
                            ELSE audit_op
    /\ UNCHANGED << get_db, db_dialect, consumer, http, era, published >>
    /\ UNCHANGED << strategyVars, peerVars >>

----------------------------------------------------------------------------
(* Triage agent (triage_service/local_ai/triage_agent.py): threat-intel    *)
(* lookups, their normalisation and the threat score.  A lookup outcome    *)
(* and an entry of the intel dict are records [kind, val]: "none" = the    *)
(* lookup returned None, "absent" = no key in intel, "error" = the dict    *)
(* {"error": str(e)}, "response" = the provider's answer, val being its    *)
(* abuseConfidenceScore (abuseipdb), the positives of its file report      *)
(* (virustotal), or 1 when the sample is known (malwarebazaar).            *)

Providers == {"abuseipdb", "malwarebazaar", "virustotal"}
Severities == {"critical", "medium", "low"}
SigmaCounts == {0, 2, 5, 7}
YaraCounts == {0, 1, 3}
AbuseScores == {0, 30, 60, 100}
VtPositives == {0, 3, 10}

Raised == [kind |-> "error", val |-> 0]
Response(v) == [kind |-> "response", val |-> v]

Incidents ==
    [source_ip : BOOLEAN, file_hash : BOOLEAN, severity : Severities,
     sigma_matches : SigmaCounts, yara_results : YaraCounts]

\* abuseipdb_lookup: None without a source_ip or a client, {"error": ..} when
\* the client raises (not configured, timed out, refused), else its answer
abuseipdb_lookup(incident) ==
    IF ~incident.source_ip THEN {Null}
    ELSE {Null, Raised} \cup {Response(v) : v \in AbuseScores}

malwarebazaar_lookup(incident) ==
    IF ~incident.file_hash THEN {Null}
    ELSE {Null, Raised, Response(0), Response(1)}

\* virustotal_lookup: the file report is asked only with a file_hash
virustotal_lookup(incident) ==
    IF ~incident.file_hash /\ ~incident.source_ip THEN {Null}
    ELSE IF ~incident.file_hash THEN {Null, Raised, Response(0)}
    ELSE {Null, Raised} \cup {Response(v) : v \in VtPositives}

LookupResults(incident) ==
    [abuseipdb : abuseipdb_lookup(incident),
     malwarebazaar : malwarebazaar_lookup(incident),
     virustotal : virustotal_lookup(incident)]

\* for k, r in zip(intel_keys, results): a None result leaves no key
IntelEntry(r) == IF r.kind = "none" THEN Absent ELSE r

IsDict(x) == x.kind \in {"error", "response"}

\* abuseConfidenceScore or abuse_confidence_score or confidence, 0 when the
\* dict has none of them
AbuseConfidenceScore(a) == IF a.kind = "response" THEN a.val ELSE 0

\* the normalisation block of _gather_intel
Derived(abuseipdb, malwarebazaar, virustotal) ==
    LET acs_val == IF IsDict(abuseipdb) THEN AbuseConfidenceScore(abuseipdb)
                   ELSE 0
        positives == IF virustotal.kind = "response" THEN virustotal.val
                     ELSE 0
        known == malwarebazaar.kind = "response" /\ malwarebazaar.val = 1
    IN  [ip_reputation |-> IF acs_val >= 75 THEN "malicious"
                           ELSE IF acs_val >= 30 THEN "suspicious"
                           ELSE "unknown",
         file_reputation |-> IF known THEN "malicious"
                             ELSE IF positives > 5 THEN "malicious"
                             ELSE IF positives > 0 THEN "suspicious"
                             ELSE "unknown",
         vt_malicious_count |-> positives,
         abuse_confidence |-> acs_val]

GatherIntel(results) ==
    LET a == IntelEntry(results.abuseipdb)
        m == IntelEntry(results.malwarebazaar)
        v == IntelEntry(results.virustotal)
    IN  [abuseipdb |-> a, malwarebazaar |-> m, virustotal |-> v,
         derived |-> Derived(a, m, v)]

Min2(a, b) == IF a <= b THEN a ELSE b

\* round(n / d) of Python 3: to the nearest integer, a tie to the even one
PyRound(n, d) ==
    LET q == n \div d
        r == n % d
    IN  IF 2 * r < d THEN q
        ELSE IF 2 * r > d THEN q + 1
        ELSE IF q % 2 = 0 THEN q ELSE q + 1

threat_level_HighFrom70(threat_score) ==
    IF threat_score >= 80 THEN "critical"
    ELSE IF threat_score >= 70 THEN "high"
    ELSE IF threat_score >= 30 THEN "medium"
    ELSE "low"

\* the bucketing at the end of _compute_threat_score
threat_level(threat_score) ==
    IF threat_score >= 80 THEN "critical"
    ELSE IF threat_score >= 60 THEN "high"
    ELSE IF threat_score >= 30 THEN "medium"
    ELSE "low"

ScoreUnit == 60

WeightedSum_SigmaPerMatch(sigma_matches, yara_results, intel, incident) ==
    300 * sigma_matches
    + 500 * Min2(3, yara_results)
    + 120 * Min2(10, intel.derived.vt_malicious_count)
    + 9 * Min2(100, intel.derived.abuse_confidence)
    + (IF intel.malwarebazaar.kind = "response"
          /\ intel.malwarebazaar.val = 1 THEN 600 ELSE 0)
    + (IF incident.severity \in {"critical", "high"} THEN 300
       ELSE IF incident.severity = "medium" THEN 150 ELSE 0)

\* the weighted sum in sixtieths of a point: sigma 25 * min(1, n/5), yara
\* 25 * min(1, n/3), virustotal 20 * min(1, n/10), abuseipdb
\* 15 * min(1, n/100), malwarebazaar 10, severity 5 or 2.5
WeightedSum(sigma_matches, yara_results, intel, incident) ==
    300 * Min2(5, sigma_matches)
    + 500 * Min2(3, yara_results)
    + 120 * Min2(10, intel.derived.vt_malicious_count)
    + 9 * Min2(100, intel.derived.abuse_confidence)
    + (IF intel.malwarebazaar.kind = "response"
          /\ intel.malwarebazaar.val = 1 THEN 600 ELSE 0)
    + (IF incident.severity \in {"critical", "high"} THEN 300
       ELSE IF incident.severity = "medium" THEN 150 ELSE 0)

_compute_threat_score(sigma_matches, yara_results, intel, incident) ==
    LET score == WeightedSum(sigma_matches, yara_results, intel, incident)
        threat_score == Max2(0, Min2(MaxScore, PyRound(score, ScoreUnit)))
    IN  [threat_score |-> threat_score,
         threat_level |-> threat_level(threat_score)]

NoIntel == [abuseipdb |-> Absent, malwarebazaar |-> Absent,
            virustotal |-> Absent,
            derived |-> Derived(Absent, Absent, Absent)]
NoScoring == [threat_score |-> 0, threat_level |-> ""]
NoIncident == [source_ip |-> FALSE, file_hash |-> FALSE, severity |-> "low",
               sigma_matches |-> 0, yara_results |-> 0]
NoLookups == [abuseipdb |-> Null, malwarebazaar |-> Null, virustotal |-> Null]

IdleTriage ==
    tri = [pc |-> "idle", incident |-> NoIncident, results |-> NoLookups,
           intel |-> NoIntel, scoring |-> NoScoring]

\* analyze_incident is called with an incident
InitTriage ==
    \E incident \in Incidents :
      tri = [pc |-> "new", incident |-> incident, results |-> NoLookups,
             intel |-> NoIntel, scoring |-> NoScoring]

\* analyze_incident, step 3
_gather_intel ==
    /\ tri.pc = "new"
    /\ \E results \in LookupResults(tri.incident) :
         tri' = [tri EXCEPT !.pc = "intel", !.results = results,
                            !.intel = GatherIntel(results)]
    /\ UNCHANGED triageFrame

\* analyze_incident, step 4
ComputeThreatScore ==
    /\ tri.pc = "intel"
    /\ tri' = [tri EXCEPT !.pc = "scored",
                          !.scoring = _compute_threat_score(
                                        tri.incident.sigma_matches,
                                        tri.incident.yara_results,
                                        tri.intel, tri.incident)]
    /\ UNCHANGED triageFrame

NextTriage == _gather_intel \/ ComputeThreatScore

----------------------------------------------------------------------------
(* Gateway quarantine (gateway/attack_patterns.py,                         *)
(* gateway/security_middleware.py): the quarantined_ips table, the         *)
(* in-memory _quarantined_ips set and the alerts the middleware processes. *)
(* Times are seconds on the database clock.                                *)

MaxGatewayOps == 3

Ips == {"10.0.0.1", "10.0.0.2"}
ThreatLevels == {"critical", "high", "medium", "low", "info"}

get_quarantine_duration_HighOneDay(level) ==
    CASE level = "critical" -> 0
      [] level = "high" -> 24 * 3600
      [] level = "medium" -> 24 * 3600
      [] level = "low" -> 3600
      [] level = "info" -> 0
      [] OTHER -> 3600

\* QUARANTINE_DURATION.get(threat_level, 3600)
get_quarantine_duration(level) ==
    CASE level = "critical" -> 0
      [] level = "high" -> 7 * 24 * 3600
      [] level = "medium" -> 24 * 3600
      [] level = "low" -> 3600
      [] level = "info" -> 0
      [] OTHER -> 3600

NoQuarantine == [ip_address |-> "", status |-> "none", attack_type |-> "",
                 quarantined_at |-> 0, quarantined_by |-> "",
                 expires_at |-> Null]

\* the rows of quarantined_ips with this ip_address
RowsOf(table, ip) == {k \in 1..Len(table) : table[k].ip_address = ip}

QuarantineRow(ip, attack_type, expires_at, now) ==
    [ip_address |-> ip, status |-> "active", attack_type |-> attack_type,
     quarantined_at |-> now, quarantined_by |-> "security_middleware",
     expires_at |-> expires_at]

_store_quarantine_InsertOnly(table, ip, attack_type, duration, now) ==
    Append(table, QuarantineRow(ip, attack_type,
                    IF duration > 0 THEN IntVal(now + duration) ELSE Null, now))

\* INSERT INTO quarantined_ips ... ON CONFLICT (ip_address) DO UPDATE SET
\* status, quarantined_at, expires_at: one statement, which the unique index
\* on ip_address makes atomic against other writers
_store_quarantine(table, ip, attack_type, duration, now) ==
    LET expires_at == IF duration > 0 THEN IntVal(now + duration) ELSE Null
    IN  IF RowsOf(table, ip) = {}
        THEN Append(table, QuarantineRow(ip, attack_type, expires_at, now))
        ELSE [k \in 1..Len(table) |->
                IF table[k].ip_address = ip
                THEN [table[k] EXCEPT !.status = "active",
                                      !.quarantined_at = now,
                                      !.expires_at = expires_at]
                ELSE table[k]]

\* the record of an address: its row, if any
QuarantineRecord(ip) ==
    IF RowsOf(gw.quarantined_ips, ip) = {} THEN NoQuarantine
    ELSE gw.quarantined_ips[CHOOSE k \in RowsOf(gw.quarantined_ips, ip) : TRUE]

\* the alerts the middleware's checks build: only the brute-force alert
\* carries auto_quarantine, none carries a confidence
DetectorAlerts ==
    { [attack_type |-> "directory_traversal", threat_level |-> "high",
       auto_quarantine |-> FALSE],
      [attack_type |-> "reconnaissance", threat_level |-> "medium",
       auto_quarantine |-> FALSE],
      [attack_type |-> "sql_injection", threat_level |-> "critical",
       auto_quarantine |-> FALSE],
      [attack_type |-> "suspicious_user_agent", threat_level |-> "low",
       auto_quarantine |-> FALSE],
      [attack_type |-> "brute_force", threat_level |-> "high",
       auto_quarantine |-> TRUE] }

\* step 4 of _process_security_alerts: alert.get("auto_quarantine") or
\* (threat_level == CRITICAL and alert.get("confidence", 1.0) >= 0.9)
AutoQuarantineGate(alert) ==
    IF alert.auto_quarantine THEN TRUE ELSE alert.threat_level = "critical"

\* triage.completed payloads the response consumer receives: the triage
\* result's decision, threat_score and confidence (percent), and whether
\* raw_data names a source address
QuarantinePayloads ==
    { [triage |-> Triage(t[1], t[2], t[3]), has_ip |-> ip] :
        t \in { << "confirmed_ransomware", 95, 85 >>,
                << "confirmed_ransomware", 85, 85 >>,
                << "confirmed_ransomware", 70, 70 >>,
                << "suspicious", 50, 70 >>,
                << "suspicious", 50, 80 >>,
                << "false_positive", 10, 20 >> },
        ip \in BOOLEAN }

NoGatewayOp == [kind |-> "none", ip |-> "", threat_level |-> "",
                stored |-> FALSE,
                payload |-> [triage |-> EmptyTriage, has_ip |-> FALSE],
                status |-> "", keys |-> {}, started |-> FALSE]

\* _auto_quarantine: the address joins _quarantined_ips and the record is
\* stored; an exception of the database is logged and dropped (db_ok FALSE)
_auto_quarantine(g, ip, attack_type, level, db_ok) ==
    [g EXCEPT !.mem = @ \cup {ip},
              !.quarantined_ips =
                 IF db_ok
                 THEN _store_quarantine(@, ip, attack_type,
                        get_quarantine_duration(level), g.now)
                 ELSE @,
              !.last = [NoGatewayOp EXCEPT !.kind = "alert", !.ip = ip,
                                           !.threat_level = level,
                                           !.stored = db_ok]]

InitGateway ==
    gw = [quarantined_ips |-> << >>, mem |-> {},
          now |-> 1, last |-> NoGatewayOp]

\* dispatch: a request of client_ip, not quarantined, raises an alert
_process_security_alerts ==
    /\ gw.now <= MaxGatewayOps
    /\ \E client_ip \in Ips \ gw.mem :
       \E alert \in DetectorAlerts :
       \E db_ok \in BOOLEAN :
         LET g == [gw EXCEPT !.now = @ + 1,
                             !.last = [NoGatewayOp EXCEPT
                                         !.kind = "alert", !.ip = client_ip,
                                         !.threat_level = alert.threat_level]]
         IN  gw' = IF AutoQuarantineGate(alert)
                   THEN [_auto_quarantine(gw, client_ip, alert.attack_type,
                                          alert.threat_level, db_ok)
                           EXCEPT !.now = @ + 1]
                   ELSE g
    /\ UNCHANGED gatewayFrame

\* release_ip: the address leaves _quarantined_ips; its record is not touched
release_ip ==
    /\ \E ip \in gw.mem : gw' = [gw EXCEPT !.mem = @ \ {ip}]
    /\ UNCHANGED gatewayFrame

\* QuarantinedIP.is_expired: a record with no expires_at never expires
is_expired(rec, utcnow) ==
    IF rec.expires_at = Null THEN FALSE ELSE utcnow > rec.expires_at.val

\* SecurityMiddleware._is_quarantined: membership in the in-memory set
_is_quarantined(g, ip) == ip \in g.mem

\* dispatch of a request that raises no alert: 403 for a quarantined
\* address, before any other check; else the request goes on
dispatch ==
    /\ \E client_ip \in Ips :
         gw' = [gw EXCEPT
                  !.last = [NoGatewayOp EXCEPT
                              !.kind = "request", !.ip = client_ip,
                              !.status = IF _is_quarantined(gw, client_ip)
                                         THEN "403" ELSE "passed"]]
    /\ UNCHANGED gatewayFrame

\* time passes until just after the expires_at of a stored record; no code
\* of the gateway runs when it does
TimePasses ==
    /\ \E k \in 1..Len(gw.quarantined_ips) :
         LET rec == gw.quarantined_ips[k]
         IN  /\ rec.expires_at # Null
             /\ ~is_expired(rec, gw.now)
             /\ gw' = [gw EXCEPT !.now = rec.expires_at.val + 1,
                                 !.last = [NoGatewayOp EXCEPT !.kind = "clock"]]
    /\ UNCHANGED gatewayFrame

\* the threat_level of the quarantine request the consumer posts
QuarantineRequestLevel(payload) ==
    IF Max2(PyInt(payload.triage.confidence),
            PyInt(payload.triage.threat_score)) >= 90
    THEN "critical" ELSE "high"

\* POST /api/internal/security/quarantine: the record is upserted by address
\* with status active and the expiry of the requested level
internal_security_quarantine(g, ip, attack_type, level) ==
    [g EXCEPT !.quarantined_ips =
                 _store_quarantine(@, ip, attack_type,
                                   get_quarantine_duration(level), g.now)]

\* response_service.consumer._process for an incident with no workflow yet:
\* _auto_quarantine_if_needed, then _auto_trigger_if_needed, then the commit.
\* gw_ok: the gateway answered the quarantine request with 200/201
ProcessTriageCompleted ==
    /\ gw.now <= MaxGatewayOps
    /\ \E payload \in QuarantinePayloads :
       \E ip \in Ips :
       \E gw_ok \in BOOLEAN :
         LET aq == _auto_quarantine_if_needed("pending", payload, gw_ok)
             started == _auto_trigger_if_needed(NoTask, payload.triage)
             g == IF aq.quarantined
                  THEN internal_security_quarantine(
                         gw, ip, "unknown", QuarantineRequestLevel(payload))
                  ELSE gw
         IN  gw' = [g EXCEPT
                      !.now = @ + 1,
                      !.last = [kind |-> "triage", ip |-> ip,
                                threat_level |->
                                  threat_level(PyInt(payload.triage.threat_score)),
                                stored |-> aq.quarantined,
                                payload |-> payload,
                                status |-> IF started THEN "workflow_started"
                                           ELSE aq.status,
                                keys |-> aq.keys,
                                started |-> started]]
    /\ UNCHANGED gatewayFrame

----------------------------------------------------------------------------
(* Bus consumers (shared_lib/events/rabbitmq.py, core/rabbitmq_utils.py).  *)
(* A queued message is [id, decodable, raises, redelivered]: whether its   *)
(* body is JSON and whether the handler throws on its payload.  A delivery *)
(* records whether the handler was invoked and how the message was         *)
(* settled.  tasks[id] follows the processing of the message: with         *)
(* response_service.consumer._handle_event the handler only schedules the  *)
(* _process coroutine; an inline handler does the processing itself.       *)

MaxMessages == 2
MaxDeliveries == 4

MessageIds == 1..MaxMessages
ConsumeLoops == {"_on_message", "_process_message"}
Handlers == {"_handle_event", "inline"}

Settled(invoked, settle, requeue) ==
    [invoked |-> invoked, settle |-> settle, requeue |-> requeue]

_on_message_Requeue(msg, ok) ==
    IF msg.decodable /\ ok THEN Settled(TRUE, "ack", FALSE)
    ELSE Settled(msg.decodable, "nack", TRUE)

\* core.rabbitmq_utils._on_message: json.loads and the handler inside one
\* try, basic_ack after the handler returned, basic_nack(requeue=False) on
\* any exception.  ok: the handler returned
_on_message(msg, ok) ==
    IF msg.decodable /\ ok THEN Settled(TRUE, "ack", FALSE)
    ELSE Settled(msg.decodable, "nack", FALSE)

\* shared_lib.events.rabbitmq._process_message: both except blocks return
\* inside `async with message.process(requeue=False)`, which acks on a
\* normal exit
_process_message(msg, ok) == Settled(msg.decodable, "ack", FALSE)

\* the handler's outcome on a decoded payload: _handle_event catches what
\* scheduling may raise and returns at once, leaving _process scheduled
HandlerReturns(handler, msg) ==
    IF handler = "_handle_event" THEN TRUE ELSE ~msg.raises

TaskAfterHandler(handler, msg) ==
    IF handler = "_handle_event" THEN "scheduled"
    ELSE IF msg.raises THEN "interrupted" ELSE "finished"

InitBus ==
    \E loop \in ConsumeLoops :
    \E handler \in Handlers :
    \E decodable \in [MessageIds -> BOOLEAN] :
    \E raises \in [MessageIds -> BOOLEAN] :
      bus = [loop |-> loop, handler |-> handler,
             queue |-> [k \in MessageIds |->
                          [id |-> k, decodable |-> decodable[k],
                           raises |-> raises[k], redelivered |-> FALSE]],
             deliveries |-> << >>,
             tasks |-> [k \in MessageIds |-> "none"]]

IdleBus ==
    bus = [loop |-> "_on_message", handler |-> "inline", queue |-> << >>,
           deliveries |-> << >>, tasks |-> [k \in MessageIds |-> "none"]]

\* the broker delivers the head of the queue (prefetch 1) and the consume
\* callback settles it; a requeued message returns to the head
Deliver ==
    /\ Len(bus.queue) > 0
    /\ Len(bus.deliveries) < MaxDeliveries
    /\ LET msg == Head(bus.queue)
           ok == HandlerReturns(bus.handler, msg)
           out == IF bus.loop = "_on_message" THEN _on_message(msg, ok)
                  ELSE _process_message(msg, ok)
       IN  bus' = [bus EXCEPT
                     !.queue = IF out.requeue
                               THEN << [msg EXCEPT !.redelivered = TRUE] >>
                                    \o Tail(@)
                               ELSE Tail(@),
                     !.deliveries = Append(@, [id |-> msg.id,
                                               decodable |-> msg.decodable,
                                               returned |-> out.invoked /\ ok,
                                               invoked |-> out.invoked,
                                               settle |-> out.settle,
                                               requeue |-> out.requeue]),
                     !.tasks[msg.id] =
                        IF out.invoked THEN TaskAfterHandler(bus.handler, msg)
                        ELSE @]
    /\ UNCHANGED busFrame

\* _process ran to its end
ProcessFinish ==
    /\ \E k \in MessageIds :
         /\ bus.tasks[k] = "scheduled"
         /\ bus' = [bus EXCEPT !.tasks[k] = "finished"]
    /\ UNCHANGED busFrame

\* _process stopped before its end: the loop was closed with the task
\* pending, or the coroutine raised (it publishes response.failed and ends)
ProcessInterrupt ==
    /\ \E k \in MessageIds :
         /\ bus.tasks[k] = "scheduled"
         /\ bus' = [bus EXCEPT !.tasks[k] = "interrupted"]
    /\ UNCHANGED busFrame

NextBus == Deliver \/ ProcessFinish \/ ProcessInterrupt

----------------------------------------------------------------------------
(* Gateway event bridge (gateway/event_consumer.py).  Events are numbered  *)
(* in the order the bus consumer thread hands them to _thread_handler.     *)
(* ready is the ASGI loop's queue of callbacks: "create" is the callback   *)
(* run_coroutine_threadsafe posts, which creates the task of               *)
(* _event_queue.put; "put" is a step of that task; "consumer" is a step of *)
(* the _queue_consumer task.  putters are the put tasks waiting on a full  *)
(* queue, in asyncio.Queue's order.                                        *)

MaxBridgeEvents == 4
QueueMaxsize == 1

LoopCallback(kind, n) == [kind |-> kind, n |-> n]

\* delivered: the routing keys of the messages the exchange has put into the
\* gateway_bridge queue
InitBridge ==
    bridge = [handed |-> 0, ready |-> << >>, queue |-> << >>,
              putters |-> << >>, consumer |-> "get", passed |-> << >>,
              delivered |-> << >>]

\* asyncio.Queue.put as the bridge uses it: wait while the queue is full,
\* else put_nowait, which wakes the consumer waiting in get()
QueuePut(b, n) ==
    IF Len(b.queue) >= QueueMaxsize
    THEN [b EXCEPT !.putters = Append(@, n)]
    ELSE [b EXCEPT !.queue = Append(@, n),
                   !.ready = IF b.consumer = "get"
                             THEN Append(@, LoopCallback("consumer", 0))
                             ELSE @,
                   !.consumer = IF @ = "get" THEN "woken" ELSE @]

\* one turn of `while True` in _queue_consumer up to its next await: get()
\* waits on an empty queue; else get_nowait wakes the first waiting putter
\* and the event is passed to the callback
_queue_consumer(b) ==
    IF b.queue = << >>
    THEN [b EXCEPT !.consumer = "get"]
    ELSE [b EXCEPT !.queue = Tail(@),
                   !.putters = IF @ = << >> THEN @ ELSE Tail(@),
                   !.ready = IF b.putters = << >> THEN @
                             ELSE Append(@, LoopCallback("put", Head(b.putters))),
                   !.passed = Append(@, Head(b.queue)),
                   !.consumer = "callback"]

\* the consumer thread hands the next event over: the put is scheduled on
\* the ASGI loop and the handler returns
_thread_handler ==
    /\ bridge.handed < MaxBridgeEvents
    /\ bridge' = [bridge EXCEPT
                    !.handed = @ + 1,
                    !.ready = Append(@, LoopCallback("create", bridge.handed + 1))]
    /\ UNCHANGED bridgeFrame

\* the ASGI loop runs the first ready callback
LoopRun ==
    /\ bridge.ready # << >>
    /\ LET cb == Head(bridge.ready)
           b == [bridge EXCEPT !.ready = Tail(@)]
       IN  bridge' = CASE cb.kind = "create" ->
                            [b EXCEPT !.ready = Append(@, LoopCallback("put", cb.n))]
                       [] cb.kind = "put" -> QueuePut(b, cb.n)
                       [] OTHER -> _queue_consumer(b)
    /\ UNCHANGED bridgeFrame

\* what the callback awaited completes: the consumer task is ready again
CallbackDone ==
    /\ bridge.consumer = "callback"
    /\ bridge' = [bridge EXCEPT
                    !.consumer = "resumed",
                    !.ready = Append(@, LoopCallback("consumer", 0))]
    /\ UNCHANGED bridgeFrame

NextBridge == _thread_handler \/ LoopRun \/ CallbackDone

----------------------------------------------------------------------------
(* GET /incidents/{incident_id}/timeline (response_service/routes.py) and  *)
(* the way a published event reaches the ledger: the topic exchange routes *)
(* it to the audit queue when a binding key matches, and                   *)
(* audit_service.consumer persists it.  Timestamps are clock values; tl    *)
(* holds the incident's timestamp column, the last answer of the endpoint  *)
(* and, per chain, how many of its events the exchange has routed.         *)

TimelineEntry(timestamp, event_type, source) ==
    [timestamp |-> timestamp, event_type |-> event_type, source |-> source]

\* sorted(events, key=lambda x: x.timestamp): stable
RECURSIVE sorted(_)
sorted(events) ==
    IF events = << >> THEN << >>
    ELSE LET n == Len(events)
             x == events[n]
             head == sorted(SubSeq(events, 1, n - 1))
             k == Cardinality({i \in 1..(n - 1) : head[i].timestamp <= x.timestamp})
         IN  SubSeq(head, 1, k) \o << x >> \o SubSeq(head, k + 1, n - 1)

\* select(AuditLog).where(AuditLog.target == incident_id)
\*     .order_by(AuditLog.created_at.asc())
TimelineRows(logs, incident_id) ==
    LET hits == SelectSeq(logs, LAMBDA l : l.target = incident_id)
    IN  sorted([k \in 1..Len(hits) |->
                  TimelineEntry(hits[k].created_at, hits[k].action, hits[k].actor)])

get_incident_timeline_Unsorted(logs, incident_id, incident_timestamp, utcnow) ==
    << TimelineEntry(incident_timestamp, "triage_summary", "triage_agent") >>
    \o TimelineRows(logs, incident_id)
    \o << TimelineEntry(utcnow, "response_summary", "response_agent") >>

\* the events of the answer: the ledger rows, the triage summary inserted at
\* the front, the response summary appended, then the sort
get_incident_timeline(logs, incident_id, incident_timestamp, utcnow) ==
    sorted(<< TimelineEntry(incident_timestamp, "triage_summary", "triage_agent") >>
           \o TimelineRows(logs, incident_id)
           \o << TimelineEntry(utcnow, "response_summary", "response_agent") >>)

\* AMQP topic match of a binding key against a routing key, both as words:
\* "*" stands for exactly one word
TopicMatch(binding, key) ==
    /\ Len(binding) = Len(key)
    /\ \A k \in 1..Len(binding) : binding[k] = "*" \/ binding[k] = key[k]

\* AUDIT_BINDINGS default
BINDING_KEYS == { << "incident", "*" >> }

\* gateway.event_consumer.start: the default binding keys of gateway_bridge
keys == { << "incident", "*" >>, << "response", "*" >>,
          << "security", "*" >>, << "user", "*" >> }

\* the routing keys the response chain publishes, as words
Words(key) ==
    CASE key = "response.workflow.started" -> << "response", "workflow", "started" >>
      [] key = "response.quarantine.completed" -> << "response", "quarantine", "completed" >>
      [] key = "response.block_ip.completed" -> << "response", "block_ip", "completed" >>
      [] key = "response.escalation.triggered" -> << "response", "escalation", "triggered" >>
      [] key = "response.forensics.collected" -> << "response", "forensics", "collected" >>
      [] key = "response.workflow.completed" -> << "response", "workflow", "completed" >>
      [] key = "soc.alert" -> << "soc", "alert" >>
      [] OTHER -> << key >>

\* _persist_event_to_db for an event of the chain: its payload carries
\* incident_id but no action, target, actor or status
PersistedEvent(key) ==
    [actor |-> "system", action |-> Or(Or("", key), "event"), target |-> "",
     resource_type |-> "system", status |-> "info", details |-> "{}"]

MaxTimestamp == 3

NoTimeline == [timestamp |-> 0, status |-> "none", utcnow |-> 0,
               events |-> << >>, routed |-> [t \in Tids |-> 0]]

IdleTimeline == tl = NoTimeline

InitTimeline ==
    \E ts \in 1..MaxTimestamp : tl = [NoTimeline EXCEPT !.timestamp = ts]

\* the endpoint answers 404 when the incident is not stored
GetTimeline ==
    /\ tl' = IF row.exists
             THEN [tl EXCEPT
                     !.status = "200", !.utcnow = audit_clock,
                     !.events = get_incident_timeline(audit_logs, "inc1",
                                                      tl.timestamp, audit_clock)]
             ELSE [tl EXCEPT !.status = "404", !.utcnow = audit_clock,
                             !.events = << >>]
    /\ UNCHANGED timelineFrame

\* the exchange routes the next event a chain published: the audit consumer
\* persists it when the audit queue is bound to its key, and it is put into
\* the gateway_bridge queue when one of the bridge's keys matches it
RouteEvent(t) ==
    /\ tl.routed[t] < Len(run[t].events)
    /\ LET key == run[t].events[tl.routed[t] + 1]
           bound == \E b \in BINDING_KEYS : TopicMatch(b, Words(key))
           bridged == \E b \in keys : TopicMatch(b, Words(key))
       IN  /\ bridge' = IF bridged
                        THEN [bridge EXCEPT !.delivered = Append(@, key)]
                        ELSE bridge
           /\ audit_logs' = IF bound
                            THEN OrmInsert(audit_logs, audit_clock, PersistedEvent(key))
                            ELSE audit_logs
           /\ audit_clock' = IF bound THEN audit_clock + 1 ELSE audit_clock
           /\ audit_op' = IF bound
                          THEN [kind |-> "insert", raised |-> FALSE,
                                before |-> audit_logs]
                          ELSE audit_op
    /\ tl' = [tl EXCEPT !.routed[t] = @ + 1]
    /\ UNCHANGED << strategyVars, respVars, triageVars, gatewayVars, busVars >>

NextTimeline == create_audit_log \/ _write_async \/ GetTimeline

----------------------------------------------------------------------------
(* Specifications.                                                         *)

IdlePeers ==
    IdleTriage /\ InitGateway /\ IdleBus /\ InitBridge /\ IdleTimeline

Builds == { << "async_generator", "postgresql" >>, << "session_iter", "sqlite" >>,
            << "session_iter", "postgresql" >> }

IdleStrategy == sel = NoSel

IdleResponse ==
    /\ get_db = "async_generator"
    /\ db_dialect = "postgresql"
    /\ row = NoRow
    /\ consumer = [i \in Events |-> IdleHandler]
    /\ http = [j \in Requests |-> IdleRequest]
    /\ era = [t \in Tids |-> NoEra]
    /\ run = [t \in Tids |-> NoRun]
    /\ published = {}

\* the strategy functions on their own
InitSpecStrategy == InitStrategy /\ IdleResponse /\ InitAudit /\ IdlePeers

NextStrategy == SelectStrategy \/ BuildWorkflow

SpecStrategy == InitSpecStrategy /\ [][NextStrategy]_vars

\* the audit ledger on its own
InitSpecAudit == IdleStrategy /\ IdleResponse /\ InitAudit /\ IdlePeers

SpecAudit == InitSpecAudit /\ [][NextAudit]_vars

\* the triage agent on one incident
InitSpecTriage ==
    /\ IdleStrategy /\ IdleResponse /\ InitAudit
    /\ InitTriage /\ InitGateway /\ IdleBus /\ InitBridge
    /\ IdleTimeline

SpecTriage == InitSpecTriage /\ [][NextTriage]_vars

\* the gateway's quarantine store
InitSpecQuarantine ==
    /\ IdleStrategy /\ IdleResponse /\ InitAudit
    /\ IdleTriage /\ InitGateway /\ IdleBus /\ InitBridge
    /\ IdleTimeline

NextQuarantine ==
    \/ _process_security_alerts
    \/ release_ip
    \/ ProcessTriageCompleted
    \/ dispatch
    \/ TimePasses

SpecQuarantine == InitSpecQuarantine /\ [][NextQuarantine]_vars

\* a bus consumer on a queue of MaxMessages messages
InitSpecBus ==
    /\ IdleStrategy /\ IdleResponse /\ InitAudit
    /\ IdleTriage /\ InitGateway /\ InitBus /\ InitBridge
    /\ IdleTimeline

SpecBus == InitSpecBus /\ [][NextBus]_vars

\* the gateway's bridge fed MaxBridgeEvents events
InitSpecBridge ==
    /\ IdleStrategy /\ IdleResponse /\ InitAudit
    /\ IdleTriage /\ InitGateway /\ IdleBus /\ InitBridge
    /\ IdleTimeline

SpecBridge == InitSpecBridge /\ [][NextBridge]_vars

\* the timeline endpoint over a ledger written by the audit service
InitSpecTimeline ==
    /\ IdleStrategy /\ InitAudit
    /\ IdleTriage /\ InitGateway /\ IdleBus /\ InitBridge /\ InitTimeline
    /\ get_db = "session_iter"
    /\ db_dialect = "postgresql"
    /\ row = WebhookRow(TRUE)
    /\ consumer = [i \in Events |-> IdleHandler]
    /\ http = [j \in Requests |-> IdleRequest]
    /\ era = [t \in Tids |-> NoEra]
    /\ run = [t \in Tids |-> NoRun]
    /\ published = {}

SpecTimeline == InitSpecTimeline /\ [][NextTimeline]_vars

ChainNext ==
    \/ \E t \in Tids : EraStart(t)
    \/ \E t \in Tids : EraPublish(t)
    \/ \E t \in Tids : StepTake(t)
    \/ \E t \in Tids : StepRun(t)

\* the dispatcher task and its chain: triage_service.tasks.triage_incident has
\* queued MaxRuns execute_response_actions messages for the incident, which
\* the SIEM webhook has stored or not
InitChain ==
    /\ IdleStrategy
    /\ InitAudit
    /\ IdlePeers
    /\ get_db = "session_iter"
    /\ db_dialect \in {"sqlite", "postgresql"}
    /\ row \in {NoRow, WebhookRow(TRUE), WebhookRow(FALSE)}
    /\ consumer = [i \in Events |-> IdleHandler]
    /\ http = [j \in Requests |-> IdleRequest]
    /\ era = [t \in Tids |-> IF t <= MaxRuns THEN QueuedTask("triage") ELSE NoEra]
    /\ \E provider \in ProviderAnswers :
       \E broker \in {"up", "down"} :
         run = [t \in Tids |-> [NoRun EXCEPT !.isolate_endpoint = provider,
                                             !.rabbitmq = broker]]
    /\ published = {}

SpecChain == InitChain /\ [][ChainNext]_vars

\* the same under fair scheduling: a queued dispatcher task is run, a task
\* message that is out is taken by a worker, and a task body that has
\* started ends (every provider call returns or times out)
SpecChainFair ==
    /\ InitChain
    /\ [][ChainNext]_vars
    /\ \A t \in Tids : /\ WF_vars(EraStart(t))
                       /\ WF_vars(EraPublish(t))
                       /\ WF_vars(StepTake(t))
                       /\ WF_vars(StepRun(t))

\* the dispatcher task, its chain, the routing of the chain's events to the
\* audit service and the timeline endpoint
InitPipeline ==
    /\ IdleStrategy /\ InitAudit
    /\ IdleTriage /\ InitGateway /\ IdleBus /\ InitBridge
    /\ tl = [NoTimeline EXCEPT !.timestamp = 1]
    /\ get_db = "session_iter"
    /\ db_dialect \in {"sqlite", "postgresql"}
    /\ row = WebhookRow(TRUE)
    /\ consumer = [i \in Events |-> IdleHandler]
    /\ http = [j \in Requests |-> IdleRequest]
    /\ era = [t \in Tids |-> IF t <= MaxRuns THEN QueuedTask("triage") ELSE NoEra]
    /\ \E provider \in ProviderAnswers :
       \E broker \in {"up", "down"} :
         run = [t \in Tids |-> [NoRun EXCEPT !.isolate_endpoint = provider,
                                             !.rabbitmq = broker]]
    /\ published = {}

NextPipeline ==
    \/ ChainNext
    \/ \E t \in Tids : RouteEvent(t)
    \/ GetTimeline

SpecPipeline == InitPipeline /\ [][NextPipeline]_vars

\* the triage.completed consumer with the workflows it starts
InitConsumer ==
    /\ IdleStrategy
    /\ InitAudit
    /\ IdlePeers
    /\ \E b \in Builds : get_db = b[1] /\ db_dialect = b[2]
    /\ row \in {NoRow, WebhookRow(TRUE)}
    /\ consumer = [i \in Events |-> IdleHandler]
    /\ http = [j \in Requests |-> IdleRequest]
    /\ era = [t \in Tids |-> NoEra]
    /\ run = [t \in Tids |-> NoRun]
    /\ published = {}

ConsumerNext ==
    \/ \E i \in Events : ConsumerLoad(i)
    \/ \E i \in Events : ConsumerTrigger(i)
    \/ \E i \in Events : ConsumerCommit(i)

NextConsumer == ConsumerNext \/ ChainNext

SpecConsumer == InitConsumer /\ [][NextConsumer]_vars

\* the respond endpoint with the workflows it starts
InitRespond ==
    /\ IdleStrategy
    /\ InitAudit
    /\ IdlePeers
    /\ \E b \in Builds : get_db = b[1] /\ db_dialect = b[2]
    /\ row = WebhookRow(TRUE)
    /\ consumer = [i \in Events |-> IdleHandler]
    /\ http = [j \in Requests |-> IdleRequest]
    /\ era = [t \in Tids |-> NoEra]
    /\ run = [t \in Tids |-> NoRun]
    /\ published = {}

RespondNext ==
    \/ \E j \in Requests : RespondFetch(j)
    \/ \E j \in Requests : RespondPersist(j)
    \/ \E j \in Requests : RespondDispatch(j)
    \/ \E j \in Requests : RespondCommit(j)

NextRespond == RespondNext \/ ChainNext

SpecRespond == InitRespond /\ [][NextRespond]_vars

----------------------------------------------------------------------------
(* Properties.                                                             *)

Range(seq) == {seq[k] : k \in 1..Len(seq)}

NoDuplicates(seq) == \A a, b \in 1..Len(seq) : a # b => seq[a] # seq[b]

StepCompletionEvents ==
    {"response.quarantine.completed", "response.block_ip.completed",
     "response.escalation.triggered", "response.forensics.collected"}

WorkflowRunning == \E t \in Tids : run[t].state = "active"

\* C1 (SpecConsumer): whatever the interleaving of the handlers of two
\* triage.completed events for the incident, the consumer dispatches at most
\* one response workflow and no action name appears twice in actions_taken.
\* Violated: both handlers load the incident before either commits
\* current_task_id, and both call execute_response_actions.delay.
C1_AtMostOneWorkflowDispatched ==
    /\ Cardinality({t \in Tids : era[t].by = "consumer"}) <= 1
    /\ NoDuplicates(row.actions_taken.items)

C1_TwoHandlersDispatched ==
    /\ \A i \in Events : consumer[i].pc = "done"
    /\ Cardinality({t \in Tids : era[t].by = "consumer"}) = 2

\* C2 (SpecRespond): while a workflow is running, a
\* POST /incidents/{id}/respond request that found the incident with an
\* execution handle dispatches no execute_response_actions task and leaves the
\* incident's strategy, planned actions, status and current_task_id as they
\* are.
\* Violated: the endpoint resets the status to "pending", always calls
\* execute_response_actions.delay and overwrites current_task_id.
C2_RepeatTriggerIsNoOp ==
    [][ \A j \in Requests :
          ( /\ WorkflowRunning
            /\ http[j].pc \in {"fetched", "persisted"}
            /\ http[j].l_task # NoTask
            /\ http'[j] # http[j] )
          => /\ \A t \in Tids : era[t].pc = "none" => era'[t].pc = "none"
             /\ row'.response_strategy = row.response_strategy
             /\ row'.actions_planned = row.actions_planned
             /\ row'.response_status = row.response_status
             /\ row'.current_task_id = row.current_task_id ]_vars

C2_SecondChainStarted ==
    /\ \A t \in Tids : run[t].state # "none" /\ era[t].by = "respond"

\* C3 (SpecConsumer): for triage decision confirmed_ransomware with score 95
\* and no failing step, a chain that has run to its end was selected as
\* full_auto, its five tasks returned once each in the order quarantine_host,
\* block_ip, escalate, collect_forensics, finalize_response, and the persisted
\* actions_taken lists the steps in that order.
\* Violated: every task after the first receives the previous task's return
\* value in place of the incident id, and an append to a loaded actions_taken
\* list is not written.
C3_FullAutoStepsRecordedInOrder ==
    \A t \in Tids :
      ( /\ run[t].state = "success"
        /\ ~run[t].faulted
        /\ row.triage_result.decision = "confirmed_ransomware"
        /\ GetScore(row.triage_result) = IntVal(95) )
      => /\ era[t].strategy = "full_auto"
         /\ run[t].returned = << "quarantine_host", "block_ip", "escalate",
                                 "collect_forensics", "finalize_response" >>
         /\ Len(row.actions_taken.items) >= 4
         /\ SubSeq(row.actions_taken.items, 1, 4) =
              << "quarantine_host", "block_ip", "escalate", "collect_forensics" >>

C3_FullAutoChainEnded ==
    \E t \in Tids :
      /\ run[t].state = "success"
      /\ ~run[t].faulted
      /\ era[t].strategy = "full_auto"
      /\ row.triage_result.decision = "confirmed_ransomware"
      /\ GetScore(row.triage_result) = IntVal(95)

\* the triage result's score as the specification reads it: the score the
\* result carries, under either key
TriageScore(t) ==
    IF t.threat_score.kind = "int" THEN t.threat_score.val
    ELSE IF t.score.kind = "int" THEN t.score.val
    ELSE 0

\* C4 (SpecStrategy): the strategy is full_auto iff decision =
\* confirmed_ransomware or score >= 80, otherwise semi_auto iff decision =
\* escalate_human or 40 <= score < 80, otherwise analyst_only, and the chain
\* built for the strategy is its steps in order followed by the finalize task.
\* Violated: a triage result stored with threat_score null and score 90 is
\* scored 0.  (The planned actions are the steps without finalize.)
C4_StrategyFromDecisionAndScore ==
    sel.pc = "built" =>
      LET d == sel.triage.decision
          n == TriageScore(sel.triage)
          expected == IF d = "confirmed_ransomware" \/ n >= 80 THEN "full_auto"
                      ELSE IF d = "escalate_human" \/ (40 <= n /\ n < 80)
                      THEN "semi_auto"
                      ELSE "analyst_only"
          steps == CASE expected = "full_auto" ->
                          << "quarantine_host", "block_ip", "escalate",
                             "collect_forensics" >>
                     [] expected = "semi_auto" -> << "block_ip", "escalate" >>
                     [] OTHER -> << "escalate" >>
      IN  /\ sel.strategy = expected
          /\ sel.chain = Append(steps, "finalize_response")

C4_NullThreatScoreHidesScore ==
    /\ sel.pc = "built"
    /\ sel.triage.threat_score = Null
    /\ sel.triage.score = IntVal(90)
    /\ sel.strategy = "analyst_only"

FailureEvents == {"response.workflow.failed", "response.quarantine.failed",
                  "response.failed"}

\* C5 (SpecChain): once quarantine_host has failed on its attempts (three and
\* more in a row) and has no retry left, the incident's status is "error", a
\* failure event
\* has been published for the run and the ledger holds exactly one entry with
\* status "error" for the incident.
\* Violated: the task is attempted a fourth time, and when that fails too the
\* exception only fails the task: no status, event or audit entry is written.
C5_ExhaustedQuarantineMarksError ==
    \A t \in Tids :
      ( /\ run[t].state = "failed"
        /\ run[t].chain[run[t].idx] = "quarantine_host"
        /\ run[t].exhausted )
      => /\ row.response_status = "error"
         /\ Range(run[t].events) \cap FailureEvents # {}
         /\ Cardinality({k \in 1..Len(audit_logs) :
                           audit_logs[k].status = "error"}) = 1

C5_QuarantineExhausted ==
    \E t \in Tids :
      /\ run[t].state = "failed"
      /\ run[t].chain[run[t].idx] = "quarantine_host"
      /\ run[t].exhausted
      /\ run[t].retries = max_retries
      /\ row.response_status = "pending"

\* C6 (SpecChain): when a step has raised on its last attempt (the one with
\* retries = max_retries), the chain has failed at that step: no later task
\* of the chain has run or is queued, and response.workflow.completed has not
\* been published for the run.
C6_NoStepAfterRetriesExhausted ==
    \A t \in Tids :
      run[t].exhausted =>
        /\ run[t].state = "failed"
        /\ run[t].returned = SubSeq(run[t].chain, 1, run[t].idx - 1)
        /\ \A k \in 1..Len(run[t].events) :
             run[t].events[k] \notin
               {"response.block_ip.completed", "response.escalation.triggered",
                "response.forensics.collected", "response.workflow.completed",
                "soc.alert"}

C6_RetriesExhausted ==
    \E t \in Tids :
      /\ run[t].exhausted
      /\ run[t].chain[run[t].idx] = "quarantine_host"
      /\ era[t].pc = "done"

\* C7 (SpecChain): in the events published for one run,
\* response.workflow.started precedes every step-completion event and no
\* step-completion event follows response.workflow.completed.
\* Violated: the dispatcher sends the chain before it publishes
\* response.workflow.started, so a worker can publish
\* response.quarantine.completed first.
C7_StartedBeforeStepEvents ==
    \A t \in Tids :
      \A k \in 1..Len(run[t].events) :
        /\ run[t].events[k] \in StepCompletionEvents
             => \E m \in 1..(k - 1) : run[t].events[m] = "response.workflow.started"
        /\ run[t].events[k] = "response.workflow.completed"
             => \A m \in (k + 1)..Len(run[t].events) :
                  run[t].events[m] \notin StepCompletionEvents

C7_StepEventBeforeStarted ==
    \E t \in Tids :
      /\ Len(run[t].events) >= 2
      /\ run[t].events[1] = "response.quarantine.completed"
      /\ run[t].events[2] = "response.workflow.started"

\* C8 (SpecAudit): for every persisted audit entry, the hash recomputed over
\* its stored log_id, actor, action, target, resource_type, status, details
\* and created_at equals its stored integrity_hash.
\* Violated: the hash is taken before the INSERT assigns log_id and
\* created_at.
C8_StoredHashMatchesStoredFields ==
    \A k \in 1..Len(audit_logs) :
      audit_logs[k].integrity_hash = Sha256(_payload_for_hash(audit_logs[k]))

C8_EntryPersisted ==
    /\ audit_op.kind = "insert"
    /\ Len(audit_logs) > 0
    /\ audit_logs[1].log_id # NoneVal
    /\ audit_logs[1].created_at # NoneVal

C10_LedgerAppendOnly ==
    /\ Len(audit_op.before) <= Len(audit_logs)
    /\ SubSeq(audit_logs, 1, Len(audit_op.before)) = audit_op.before

C10_EntriesDropped ==
    /\ audit_op.kind = "drop_table"
    /\ Len(audit_op.before) > 0
    /\ audit_logs = << >>

\* C11 (SpecAudit): every append to the ledger, by whichever write path,
\* leaves one more persisted entry, and that entry carries the hash computed
\* over its own fields as they stood when it was appended.
\* Violated: log_action inserts through a Core statement, no hash is
\* computed and the entry is not persisted.
C11_EveryAppendPersistsHashedEntry ==
    audit_op.kind \in {"insert", "core_insert"} =>
      /\ Len(audit_logs) = Len(audit_op.before) + 1
      /\ LET e == audit_logs[Len(audit_logs)]
         IN  e.integrity_hash =
               Sha256(_payload_for_hash([e EXCEPT !.log_id = NoneVal,
                                                  !.created_at = NoneVal]))

C11_LogActionLeftNoEntry ==
    /\ audit_op.kind = "core_insert"
    /\ audit_op.raised
    /\ audit_logs = audit_op.before

LevelRank(level) ==
    CASE level = "low" -> 0
      [] level = "medium" -> 1
      [] level = "high" -> 2
      [] level = "critical" -> 3
      [] OTHER -> -1

\* C12 (SpecTriage): every score s in 0..100 has exactly one threat level,
\* critical from 80, high from 60 to 79, medium from 30 to 59 and low below
\* 30, the level never falls as the score rises, and a scored incident
\* carries the level of its score.
C12_ThreatLevelBuckets ==
    /\ \A s \in 0..MaxScore :
         /\ threat_level(s) =
              (IF s >= 80 THEN "critical" ELSE IF s >= 60 THEN "high"
               ELSE IF s >= 30 THEN "medium" ELSE "low")
         /\ s > 0 => LevelRank(threat_level(s - 1)) <= LevelRank(threat_level(s))
    /\ tri.pc = "scored" =>
         /\ tri.scoring.threat_score \in 0..MaxScore
         /\ LET s == tri.scoring.threat_score
            IN  tri.scoring.threat_level =
                  (IF s >= 80 THEN "critical" ELSE IF s >= 60 THEN "high"
                   ELSE IF s >= 30 THEN "medium" ELSE "low")

C12_ScoredAtBucketEdge ==
    /\ tri.pc = "scored"
    /\ tri.scoring.threat_score = 60
    /\ tri.scoring.threat_level = "high"

\* C13 (SpecTriage): a reputation provider whose lookup gave no answer
\* (skipped, not configured, timed out, raised) leaves an explicit marker
\* under its key in the result's intel, and the result differs from the one
\* the same incident gets when that provider answers clean.
\* Violated: a lookup that returned None leaves no key at all, and the
\* derived fields hold the values of a clean answer.
C13_UnavailableProviderIsMarked ==
    tri.pc \in {"intel", "scored"} =>
      \A P \in Providers :
        tri.results[P].kind \in {"none", "error"} =>
          /\ tri.intel[P].kind = "error"
          /\ tri.intel # GatherIntel([tri.results EXCEPT ![P] = Response(0)])

C13_SkippedLookupScoredAsClean ==
    /\ tri.pc = "scored"
    /\ tri.incident.source_ip
    /\ tri.results.abuseipdb = Null
    /\ tri.intel.abuseipdb = Absent
    /\ tri.intel.derived =
         GatherIntel([tri.results EXCEPT !.abuseipdb = Response(0)]).derived
    /\ tri.scoring =
         _compute_threat_score(
           tri.incident.sigma_matches, tri.incident.yara_results,
           GatherIntel([tri.results EXCEPT !.abuseipdb = Response(0)]),
           tri.incident)

EffectiveScore(payload) ==
    Max2(PyInt(payload.triage.confidence), PyInt(payload.triage.threat_score))

\* C15 (SpecQuarantine): a processed triage result whose confidence is above
\* 80, with a source address and a gateway that accepted the request, leaves
\* an active quarantine record for that address whose expiry follows the
\* policy for the triage result's threat level.
\* Violated: the consumer asks for "critical" from 90 and "high" below,
\* whatever the threat level of the triage result is.
C15_HighConfidenceQuarantinedPerLevel ==
    (/\ gw.last.kind = "triage"
     /\ EffectiveScore(gw.last.payload) > AUTO_QUARANTINE_THRESHOLD
     /\ gw.last.payload.has_ip
     /\ gw.last.stored) =>
      LET rec == QuarantineRecord(gw.last.ip)
          d == get_quarantine_duration(gw.last.threat_level)
      IN  /\ rec.status = "active"
          /\ rec.expires_at = (IF d = 0 THEN Null
                               ELSE IntVal(rec.quarantined_at + d))

C15_CriticalResultQuarantinedAsHigh ==
    /\ gw.last.kind = "triage"
    /\ gw.last.stored
    /\ gw.last.threat_level = "critical"
    /\ QuarantineRecord(gw.last.ip).status = "active"
    /\ QuarantineRecord(gw.last.ip).expires_at =
         IntVal(QuarantineRecord(gw.last.ip).quarantined_at + 604800)

\* C16 (SpecQuarantine): a processed triage result with a source address
\* whose confidence is from 60 to 80 ends with status pending_analyst_review,
\* only the recommendation published, no quarantine record written and no
\* workflow started; below 60 it ends with pending_analyst_decision and no
\* workflow started.
\* Violated: _auto_trigger_if_needed starts the response workflow for a
\* confirmed_ransomware decision and overwrites the status.
C16_ReviewBandTakesNoAutomatedAction ==
    (/\ gw.last.kind = "triage"
     /\ gw.last.payload.has_ip
     /\ EffectiveScore(gw.last.payload) <= AUTO_QUARANTINE_THRESHOLD) =>
      /\ ~gw.last.stored
      /\ ~gw.last.started
      /\ IF EffectiveScore(gw.last.payload) >= ANALYST_REVIEW_THRESHOLD
         THEN /\ gw.last.status = "pending_analyst_review"
              /\ gw.last.keys = {"security.quarantine_recommended"}
         ELSE gw.last.status = "pending_analyst_decision"

C16_WorkflowStartedInReviewBand ==
    /\ gw.last.kind = "triage"
    /\ gw.last.payload.has_ip
    /\ EffectiveScore(gw.last.payload) = 70
    /\ gw.last.keys = {"security.quarantine_recommended"}
    /\ gw.last.started
    /\ gw.last.status = "workflow_started"

\* C17 (SpecQuarantine): a triage result with confidence 85 and threat level
\* critical leaves a quarantine record whose expires_at is null.
\* Violated: with a threat score from 80 to 89 the consumer requests level
\* "high" and the record expires after seven days.
C17_CriticalAt85IsPermanent ==
    (/\ gw.last.kind = "triage"
     /\ gw.last.stored
     /\ PyInt(gw.last.payload.triage.confidence) = 85
     /\ gw.last.threat_level = "critical") =>
      QuarantineRecord(gw.last.ip).expires_at = Null

C17_CriticalAt85ExpiresInSevenDays ==
    /\ gw.last.kind = "triage"
    /\ gw.last.stored
    /\ PyInt(gw.last.payload.triage.confidence) = 85
    /\ PyInt(gw.last.payload.triage.threat_score) = 85
    /\ gw.last.threat_level = "critical"
    /\ QuarantineRecord(gw.last.ip).expires_at # Null

DeliveriesOf(k) ==
    {n \in 1..Len(bus.deliveries) : bus.deliveries[n].id = k}

Queued(k) == \E n \in 1..Len(bus.queue) : bus.queue[n].id = k

\* C18 (SpecBus): a message whose body does not decode or whose handler
\* throws is settled without requeue, is no longer queued and is delivered
\* once only; the handler is not invoked for a body that does not decode;
\* and the consumer then delivers the messages that follow, in queue order.
C18_FailedMessageDroppedOnce ==
    /\ \A n \in 1..Len(bus.deliveries) :
         LET d == bus.deliveries[n]
         IN  /\ d.id = n
             /\ ~d.decodable => ~d.invoked
             /\ ~d.returned => (~d.requeue /\ ~Queued(d.id))
    /\ \A k \in MessageIds : Cardinality(DeliveriesOf(k)) <= 1
    /\ Len(bus.queue) + Len(bus.deliveries) = MaxMessages
    /\ Len(bus.queue) > 0 => ENABLED Deliver

C18_NextDeliveredAfterFailure ==
    /\ Len(bus.deliveries) >= 2
    /\ ~bus.deliveries[1].returned
    /\ bus.deliveries[2].invoked
    /\ bus.deliveries[2].returned

\* C19 (SpecBus): a message is acknowledged only once the processing its
\* handler started has finished, and a message whose processing was
\* interrupted is still queued or is delivered again.
\* Violated: _handle_event returns as soon as _process is scheduled and the
\* message is acknowledged then; nothing returns it to the queue.
C19_AckOnlyAfterProcessing ==
    \A k \in MessageIds :
      /\ (\E n \in DeliveriesOf(k) : bus.deliveries[n].settle = "ack"
                                     /\ bus.deliveries[n].invoked)
           => bus.tasks[k] = "finished"
      /\ bus.tasks[k] = "interrupted"
           => (Queued(k) \/ Cardinality(DeliveriesOf(k)) >= 2)

C19_InterruptedAfterAck ==
    /\ bus.handler = "_handle_event"
    /\ bus.loop = "_process_message"
    /\ bus.tasks[1] = "interrupted"
    /\ bus.deliveries[1].settle = "ack"
    /\ bus.queue = << >>
    /\ Len(bus.deliveries) = MaxMessages

\* C20 (SpecBridge): the callback receives the events in the order in which
\* the consumer thread handed them to the bridge.
\* Violated: with the queue full and a put waiting, a consumer turn frees a
\* slot; a put task created before that turn runs before the woken one and
\* finds the slot free, so a later event enters the queue first.
C20_CallbackOrderIsHandoverOrder ==
    \A i \in 1..Len(bridge.passed) : bridge.passed[i] = i

C20_LaterEventPassedFirst ==
    /\ Len(bridge.passed) = 4
    /\ bridge.passed[3] = 4
    /\ bridge.passed[4] = 3

\* events handed to the bridge and not yet passed to the callback
BridgeBacklog == bridge.handed - Len(bridge.passed)

\* C21 (SpecBridge): the events accepted from the bus and not yet delivered
\* to the callback never exceed the queue bound (counting generously one more
\* for an event whose hand-over is blocked), and none is dropped.
\* Violated: _thread_handler schedules the put and returns without waiting
\* for it, so the consumer thread is never blocked and the puts pile up
\* behind the full queue.
C21_BacklogBoundedByQueue ==
    /\ BridgeBacklog <= QueueMaxsize + 1
    /\ BridgeBacklog =
         Len(bridge.queue) + Len(bridge.putters)
         + Cardinality({k \in 1..Len(bridge.ready) : bridge.ready[k].kind # "consumer"})

C21_PutsPiledUpBehindFullQueue ==
    /\ Len(bridge.queue) = QueueMaxsize
    /\ Len(bridge.putters) >= 2
    /\ BridgeBacklog > QueueMaxsize + 1

WorkflowStatuses == {"pending", "running", "completed", "error"}

WorkflowTransitions ==
    { << "pending", "running" >>, << "running", "completed" >>,
      << "running", "error" >> }

\* C22 (SpecChain): the incident's workflow status is always one of pending,
\* running, completed, error, and it changes only along pending -> running
\* -> completed or pending -> running -> error.
\* Violated: the tasks write the step's own status (quarantined, ip_blocked,
\* escalation_sent); no code writes running or error.
C22_StatusFollowsStateMachine ==
    /\ [](row.exists => row.response_status \in WorkflowStatuses)
    /\ [][(row.exists /\ row'.exists
           /\ row'.response_status # row.response_status)
          => << row.response_status, row'.response_status >>
               \in WorkflowTransitions]_vars

C22_StatusIsQuarantined ==
    /\ row.exists
    /\ row.response_status = "quarantined"
    /\ \E t \in Tids : /\ Len(run[t].returned) >= 1
                       /\ run[t].returned[1] = "quarantine_host"

\* C23 (SpecQuarantine): after any sequence of quarantine writes there is at
\* most one record per ip_address, and a write for an address that already
\* has a record leaves it active with quarantined_at and expires_at taken
\* from that write.
C23_OneRecordPerAddress ==
    /\ \A ip \in Ips : Cardinality(RowsOf(gw.quarantined_ips, ip)) <= 1
    /\ gw.last.stored =>
         LET rec == QuarantineRecord(gw.last.ip)
         IN  /\ rec.status = "active"
             /\ rec.quarantined_at = gw.now - 1
             /\ rec.expires_at \in
                  {IF get_quarantine_duration(l) > 0
                   THEN IntVal(rec.quarantined_at + get_quarantine_duration(l))
                   ELSE Null : l \in ThreatLevels}

\* the record a sql_injection alert inserted (permanent) was written again by
\* a later alert of the same address, released in between
C23_ActiveAddressQuarantinedAgain ==
    /\ gw.last.kind = "alert"
    /\ gw.last.stored
    /\ QuarantineRecord(gw.last.ip).attack_type = "sql_injection"
    /\ QuarantineRecord(gw.last.ip).expires_at # Null
    /\ QuarantineRecord(gw.last.ip).quarantined_at = gw.now - 1
    /\ Len(gw.quarantined_ips) = 1

\* the triage.completed events that have arrived at the consumer
Arrived == {i \in Events : consumer[i].pc # "idle"}

\* C24 (SpecConsumer): once every triage.completed event that arrived for
\* the incident has been handled, the incident row exists and its
\* triage_result is the one carried by the event that arrived last.
\* Violated: each handler writes what it carries when its own commit runs,
\* so the handler that commits last wins, whichever event arrived last; with
\* no stored row the second INSERT fails and its result is dropped.
C24_LastArrivedTriageResultPersisted ==
    (/\ Arrived # {}
     /\ \A i \in Arrived : consumer[i].pc \in {"done", "failed"})
    => /\ row.exists
       /\ row.triage_result =
            consumer[CHOOSE i \in Arrived : \A k \in Arrived : k <= i].payload.triage

C24_EarlierEventOverwroteLater ==
    /\ consumer[1].pc = "done"
    /\ consumer[2].pc = "done"
    /\ consumer[1].found
    /\ consumer[2].found
    /\ consumer[1].payload.triage # consumer[2].payload.triage
    /\ row.triage_result = consumer[1].payload.triage

Synthetic == {"triage_summary", "response_summary"}

\* C25 (SpecTimeline): the timeline returned for the incident holds exactly
\* the ledger entries whose target is the incident id (those written before
\* the request), one triage summary and one response summary, in
\* non-decreasing timestamp order.
C25_TimelineIsLedgerPlusSummariesSorted ==
    tl.status = "200" =>
      LET ev == tl.events
          rows == SelectSeq(audit_logs,
                    LAMBDA l : l.target = "inc1" /\ l.created_at < tl.utcnow)
      IN  /\ \A k \in 1..(Len(ev) - 1) : ev[k].timestamp <= ev[k + 1].timestamp
          /\ Cardinality({k \in 1..Len(ev) : ev[k].event_type = "triage_summary"}) = 1
          /\ Cardinality({k \in 1..Len(ev) : ev[k].event_type = "response_summary"}) = 1
          /\ SelectSeq(ev, LAMBDA x : x.event_type \notin Synthetic)
               = [k \in 1..Len(rows) |->
                    TimelineEntry(rows[k].created_at, rows[k].action, rows[k].actor)]
          /\ \E k \in 1..Len(ev) :
               ev[k] = TimelineEntry(tl.timestamp, "triage_summary", "triage_agent")

\* the incident's timestamp lies after a ledger entry of the incident, and an
\* entry with another target was left out
C25_SummaryMovedBehindLedgerEntry ==
    /\ tl.status = "200"
    /\ Len(tl.events) = 3
    /\ tl.events[1].event_type \notin Synthetic
    /\ tl.events[1].timestamp < tl.events[2].timestamp
    /\ tl.events[2].event_type = "triage_summary"
    /\ \E k \in 1..Len(audit_logs) :
         audit_logs[k].target # "inc1" /\ audit_logs[k].created_at < tl.utcnow

\* a full_auto chain that has finished, all of whose events have been routed
FullAutoRecorded(t) ==
    /\ run[t].state = "success"
    /\ run[t].chain = ChainTasks(build_workflow("full_auto"))
    /\ tl.routed[t] = Len(run[t].events)

TimelineEventTypes == {tl.events[k].event_type : k \in 1..Len(tl.events)}

\* C26 (SpecPipeline): when a full_auto workflow of the incident has finished
\* and the timeline is requested after its events were handled, the timeline
\* holds entries of types response.quarantine.completed,
\* response.block_ip.completed and response.workflow.completed.
\* Violated: the audit queue is bound to incident.* only, the events carry no
\* target, and block_ip and finalize_response publish nothing because they
\* are not given the incident id.
C26_TimelineHoldsStepEvents ==
    \A t \in Tids :
      (FullAutoRecorded(t) /\ tl.status = "200" /\ tl.utcnow = audit_clock)
      => {"response.quarantine.completed", "response.block_ip.completed",
          "response.workflow.completed"} \subseteq TimelineEventTypes

C26_PublishedStepEventNotInTimeline ==
    \E t \in Tids :
      /\ FullAutoRecorded(t)
      /\ tl.status = "200"
      /\ tl.utcnow = audit_clock
      /\ "response.quarantine.completed" \in Range(run[t].events)
      /\ "response.quarantine.completed" \notin TimelineEventTypes

----------------------------------------------------------------------------
\* C27: within one workflow a step's body (its action-provider call first)
\* runs only when every step before it in the chain has returned, that is
\* after the previous step's actions_taken append and status were committed,
\* and at most one step of the workflow is running at any time: the only
\* task message of the workflow that is out is the running step's
C27_StepsStrictlySequential ==
    \A t \in Tids :
        \A k \in run[t].busy :
            /\ run[t].busy = {k}
            /\ run[t].inflight = {k}
            /\ Len(run[t].returned) = k - 1
            /\ \A j \in 1..(k - 1) : run[t].returned[j] = run[t].chain[j]

\* block_ip is running after quarantine_host committed its state change
C27_SecondStepRunsAfterFirstCommitted ==
    \E t \in Tids :
        /\ run[t].busy = {2}
        /\ run[t].chain[1] = "quarantine_host"
        /\ run[t].returned = << "quarantine_host" >>
        /\ row.response_status = "quarantined"

----------------------------------------------------------------------------
\* C28: a step that fails is retried under the fixed budget: a workflow
\* fails at a step only after that step was retried max_retries times, and
\* no step is retried more often than that; this holds for whichever of
\* quarantine_host, block_ip, escalate and collect_forensics failed
C28_FailedStepExhaustedItsRetries ==
    \A t \in Tids :
        /\ run[t].retries <= max_retries
        /\ run[t].state = "failed" =>
             /\ run[t].retries = max_retries
             /\ run[t].exhausted

\* the workflow failed at block_ip, which was never retried
C28_BlockIpFailedWithoutRetry ==
    \E t \in Tids :
        /\ run[t].state = "failed"
        /\ run[t].chain[run[t].idx] = "block_ip"
        /\ run[t].returned = << "quarantine_host" >>
        /\ run[t].retries = 0
        /\ ~run[t].exhausted

----------------------------------------------------------------------------
\* C29: "quarantine_host" is in actions_taken, the status is "quarantined"
\* and response.quarantine.completed is published only when the provider's
\* call for the step succeeded: when isolate_endpoint reports an error or a
\* timeout the step counts as failed, it is retried and nothing is recorded
C29_RecordedOnlyWhenProviderSucceeded ==
    \A t \in Tids :
        run[t].isolate_endpoint = "error" =>
            /\ "response.quarantine.completed" \notin Range(run[t].events)
            /\ "quarantine_host" \notin Range(run[t].returned)
            /\ "quarantine_host" \notin Range(row.actions_taken.items)
            /\ row.response_status # "quarantined"

\* the provider's call failed, and quarantine_host returned on its first
\* attempt with the step recorded and its completion event published
C29_ProviderErrorRecordedAsTaken ==
    \E t \in Tids :
        /\ run[t].isolate_endpoint = "error"
        /\ run[t].returned = << "quarantine_host" >>
        /\ ~run[t].faulted
        /\ "response.quarantine.completed" \in Range(run[t].events)
        /\ row.actions_taken.items = << "quarantine_host" >>
        /\ row.response_status = "quarantined"

----------------------------------------------------------------------------
\* C30: when the provider of a step is not configured the step is recorded
\* as skipped, not as executed and not as failed: quarantine_host returns
\* without a retry and the chain goes on (block_ip is sent), but
\* "quarantine_host" is not put into actions_taken, the status is not
\* "quarantined" and no response.quarantine.completed is published
C30_UnconfiguredStepRecordedAsSkipped ==
    \A t \in Tids :
        run[t].isolate_endpoint = "skipped" =>
            /\ "quarantine_host" \notin Range(row.actions_taken.items)
            /\ row.response_status # "quarantined"
            /\ "response.quarantine.completed" \notin Range(run[t].events)

\* Wazuh is not configured: quarantine_host returned on its first attempt,
\* block_ip was sent, and the incident reads as quarantined
C30_SkippedStepRecordedAsTaken ==
    \E t \in Tids :
        /\ run[t].isolate_endpoint = "skipped"
        /\ run[t].returned = << "quarantine_host" >>
        /\ ~run[t].faulted
        /\ run[t].inflight = {2}
        /\ row.actions_taken.items = << "quarantine_host" >>
        /\ row.response_status = "quarantined"

----------------------------------------------------------------------------
\* C31: under fair scheduling every workflow that was started eventually has
\* status "completed" or "error": a step that fails beyond its retry budget
\* puts the workflow into "error", and no workflow stays in another status
\* forever
C31_StartedWorkflowReachesTerminalStatus ==
    \A t \in Tids :
        (run[t].state # "none") ~> (row.response_status \in {"completed", "error"})

\* quarantine_host failed on its last retry; the workflow is over and the
\* incident's status is still the one it had before the workflow
C31_ExhaustedWorkflowLeftPending ==
    \E t \in Tids :
        /\ run[t].state = "failed"
        /\ run[t].exhausted
        /\ run[t].inflight = {}
        /\ row.response_status = "pending"

----------------------------------------------------------------------------
\* the prefetch limit of a consumer: start_consumer's and
\* start_consumer_thread's default, and basic_qos in _consume_loop
prefetch == 1

\* the messages of the queue whose processing has started and not ended
InProgress == {k \in MessageIds : bus.tasks[k] = "scheduled"}

\* C32: on a subscribed queue the number of messages whose handler
\* processing is in progress never exceeds the consumer's prefetch limit
C32_InProgressWithinPrefetch == Cardinality(InProgress) <= prefetch

\* two messages were delivered one after the other and acknowledged, and the
\* processing of both is still going on
C32_TwoProcessingsOverlap ==
    /\ bus.handler = "_handle_event"
    /\ Len(bus.deliveries) = 2
    /\ \A d \in 1..2 : bus.deliveries[d].settle = "ack"
    /\ InProgress = {1, 2}

----------------------------------------------------------------------------
IsPrefix(s, q) == Len(s) <= Len(q) /\ SubSeq(q, 1, Len(s)) = s

\* the steps of run t whose commit succeeded: quarantine_host and block_ip
\* publish their completion event right after db.commit() returned
Committed(t) ==
    {step \in {"quarantine_host", "block_ip"} :
        (IF step = "quarantine_host" THEN "response.quarantine.completed"
         ELSE "response.block_ip.completed") \in Range(run[t].events)}

\* C33: the persisted actions_taken only grows by appending (each persisted
\* value has the one before it as a prefix) and holds every step whose
\* commit succeeded: no completed step's append is lost or overwritten
C33_ActionsTakenAppendOnly ==
    /\ [](\A t \in Tids : Committed(t) \subseteq Range(row.actions_taken.items))
    /\ [][IsPrefix(row.actions_taken.items, row'.actions_taken.items)]_vars

\* quarantine_host committed and published its event for an incident the
\* consumer had stored with actions_taken = []; the stored list is still []
C33_CommittedStepNotPersisted ==
    \E t \in Tids :
        /\ "quarantine_host" \in Committed(t)
        /\ run[t].returned # << >>
        /\ ~row.actions_taken.isnull
        /\ row.actions_taken.items = << >>

----------------------------------------------------------------------------
\* the event a step publishes when it has recorded itself
StepEvent(step) ==
    CASE step = "quarantine_host" -> "response.quarantine.completed"
      [] step = "block_ip" -> "response.block_ip.completed"
      [] step = "escalate" -> "response.escalation.triggered"
      [] step = "collect_forensics" -> "response.forensics.collected"
      [] OTHER -> "response.workflow.completed"

Count(seq, x) == Cardinality({k \in 1..Len(seq) : seq[k] = x})

\* C34: for every workflow run, each step the run recorded in actions_taken
\* has exactly one step event published for it, and a workflow that reached
\* "completed" has exactly one response.workflow.completed published
C34_OneEventPerRecordedStep ==
    \A t \in Tids :
        /\ \A step \in Range(run[t].returned) \cap Range(row.actions_taken.items) :
               Count(run[t].events, StepEvent(step)) = 1
        /\ (run[t].state = "success" /\ row.response_status = "completed") =>
               Count(run[t].events, "response.workflow.completed") = 1

\* quarantine_host returned with the step recorded and the status set, and
\* the run has published nothing
C34_RecordedStepWithoutEvent ==
    \E t \in Tids :
        /\ run[t].returned = << "quarantine_host" >>
        /\ row.actions_taken.items = << "quarantine_host" >>
        /\ row.response_status = "quarantined"
        /\ run[t].rabbitmq = "down"
        /\ run[t].events = << >>

----------------------------------------------------------------------------
\* AsyncResult(task_id).state for the handle of an execute_response_actions
\* task: the task returns a dict on every path that does not raise, the
\* incident_not_found path included
AsyncResultState(e) ==
    CASE e.pc \in {"done", "not_found"} -> "SUCCESS"
      [] e.pc = "failed" -> "FAILURE"
      [] OTHER -> "PENDING"

\* GET /workflows/{incident_id}/status
get_workflow_status(rw, eras) ==
    IF ~rw.exists THEN "404"
    ELSE IF rw.current_task_id = NoTask THEN "not_started"
    ELSE AsyncResultState(eras[rw.current_task_id])

\* C35: the handle stored for an incident identifies the workflow chain:
\* whenever the status endpoint reports SUCCESS for it, every step of the
\* chain has finished and response.workflow.completed has been published
C35_SuccessMeansChainFinished ==
    get_workflow_status(row, era) = "SUCCESS" =>
        /\ run[row.current_task_id].state = "success"
        /\ "response.workflow.completed" \in Range(run[row.current_task_id].events)

\* the endpoint reports SUCCESS for the stored handle while the first step
\* of the chain it started has not run yet
C35_SuccessWhileChainRuns ==
    /\ get_workflow_status(row, era) = "SUCCESS"
    /\ run[row.current_task_id].state = "active"
    /\ run[row.current_task_id].returned = << >>
    /\ "response.workflow.started" \in Range(run[row.current_task_id].events)

----------------------------------------------------------------------------
\* C36: for each strategy, every step task of the chain runs with the id of
\* the incident the workflow was triggered for as its incident_id: never
\* with no id and never with another value
C36_StepsRunWithIncidentId ==
    \A t \in Tids :
        \A k \in run[t].busy : run[t].idx = k => run[t].arg = "id"

\* block_ip is running with the return value of quarantine_host as its
\* incident_id
C36_BlockIpRunsWithResult ==
    \E t \in Tids :
        /\ run[t].busy = {2}
        /\ run[t].idx = 2
        /\ run[t].chain[2] = "block_ip"
        /\ run[t].returned = << "quarantine_host" >>
        /\ run[t].arg = "result"

----------------------------------------------------------------------------
\* C37: when _process handles a further triage.completed event for an
\* incident whose execution handle is set, its commit leaves the incident's
\* workflow status, strategy and actions_taken as they were; only the stored
\* triage result may be replaced
C37_LaterEventKeepsWorkflowState ==
    [][ \A i \in Events :
          ( /\ consumer[i].pc = "triggered"
            /\ consumer'[i].pc # "triggered"
            /\ consumer[i].found
            /\ consumer[i].l_task # NoTask )
          => /\ row'.response_status = row.response_status
             /\ row'.response_strategy = row.response_strategy
             /\ row'.actions_taken = row.actions_taken
             /\ row'.current_task_id = row.current_task_id ]_vars

\* an event handled with the handle set has committed a status of its own
\* over the workflow's
C37_LaterEventReplacedStatus ==
    \E i \in Events :
        /\ consumer[i].pc = "done"
        /\ consumer[i].found
        /\ consumer[i].l_task # NoTask
        /\ consumer[i].l_status = "workflow_started"
        /\ consumer[i].m_status = "pending_analyst_review"
        /\ row.current_task_id = consumer[i].l_task
        /\ row.response_status = "pending_analyst_review"

----------------------------------------------------------------------------
\* the events of run t the exchange has routed
Routed(t) == {run[t].events[k] : k \in 1..tl.routed[t]}

OrchestratorEvents ==
    StepCompletionEvents \cup {"response.workflow.started",
                               "response.workflow.completed"}

\* C38: with the bridge's default binding keys every orchestrator event the
\* exchange has routed (response.workflow.started, the step-completion
\* events, response.workflow.completed) was put into the bridge's queue
C38_OrchestratorEventsReachBridge ==
    \A t \in Tids :
        \A key \in Routed(t) \cap OrchestratorEvents :
            key \in Range(bridge.delivered)

\* the exchange has routed response.workflow.started and
\* response.quarantine.completed and the bridge's queue got neither
C38_StepEventNotBridged ==
    \E t \in Tids :
        /\ {"response.workflow.started", "response.quarantine.completed"}
              \subseteq Routed(t)
        /\ bridge.delivered = << >>

----------------------------------------------------------------------------
\* C39: an address quarantined with a finite duration is rejected only until
\* its expires_at: once the record has expired a request of the address is
\* not answered 403 and the record does not count as active
C39_ExpiredQuarantineNotEnforced ==
    \A ip \in Ips :
        is_expired(QuarantineRecord(ip), gw.now) =>
            /\ QuarantineRecord(ip).status # "active"
            /\ (gw.last.kind = "request" /\ gw.last.ip = ip) =>
                   gw.last.status # "403"

\* a request of an address whose seven-day quarantine has expired was
\* answered 403, and the record is still active
C39_ExpiredAddressStillBlocked ==
    /\ gw.last.kind = "request"
    /\ gw.last.status = "403"
    /\ QuarantineRecord(gw.last.ip).expires_at =
         IntVal(QuarantineRecord(gw.last.ip).quarantined_at
                + get_quarantine_duration("high"))
    /\ is_expired(QuarantineRecord(gw.last.ip), gw.now)
    /\ QuarantineRecord(gw.last.ip).status = "active"

----------------------------------------------------------------------------
\* the intel dict with one derived count replaced
WithDerived(intel, vt, acs) ==
    [intel EXCEPT !.derived.vt_malicious_count = vt,
                  !.derived.abuse_confidence = acs]

\* C40: for every signal bundle the threat score is an integer in [0,100],
\* and each source adds at most its own cap to the sum (sigma 25, yara 25,
\* virustotal 20, abuseipdb 15 points); rule matches saturate: matches
\* beyond five sigma or three yara matches do not change the score
C40_ScoreClampedAndSourcesCapped ==
    tri.pc \in {"intel", "scored"} =>
        LET inc == tri.incident
            intel == tri.intel
            vt == intel.derived.vt_malicious_count
            acs == intel.derived.abuse_confidence
            base == WeightedSum(0, 0, WithDerived(intel, 0, 0), inc)
            score(s, y) == _compute_threat_score(s, y, intel, inc).threat_score
        IN  /\ tri.pc = "scored" =>
                 /\ tri.scoring.threat_score \in 0..MaxScore
                 /\ tri.scoring.threat_score =
                      score(inc.sigma_matches, inc.yara_results)
            /\ \A s \in 0..8 :
                 /\ WeightedSum(s, 0, WithDerived(intel, 0, 0), inc) - base
                      <= 25 * ScoreUnit
                 /\ s >= 5 => score(s, inc.yara_results) = score(5, inc.yara_results)
            /\ \A y \in 0..5 :
                 /\ WeightedSum(0, y, WithDerived(intel, 0, 0), inc) - base
                      <= 25 * ScoreUnit
                 /\ y >= 3 => score(inc.sigma_matches, y) = score(inc.sigma_matches, 3)
            /\ \A v \in {vt, 10, 11, 50} :
                 WeightedSum(0, 0, WithDerived(intel, v, 0), inc) - base
                   <= 20 * ScoreUnit
            /\ \A a \in {acs, 100, 101, 250} :
                 WeightedSum(0, 0, WithDerived(intel, 0, a), inc) - base
                   <= 15 * ScoreUnit
            /\ \A s \in 0..8 : \A y \in 0..5 : score(s, y) \in 0..MaxScore

\* seven sigma matches with every other source at its cap: the score is 100,
\* the same as with five
C40_SaturatedBundleScored ==
    /\ tri.pc = "scored"
    /\ tri.incident.sigma_matches = 7
    /\ tri.incident.yara_results = 3
    /\ tri.intel.derived.vt_malicious_count = 10
    /\ tri.intel.derived.abuse_confidence = 100
    /\ tri.scoring.threat_score = 100

====
